---- MODULE Spec2Model ----
(***************************************************************************)
(* A model of the audio-generator core of galaxy-miner                     *)
(* (src/tools/audio-generator/core): oscillators, bitcrush, the mixer and  *)
(* the WAV exporter.                                                       *)
(*                                                                         *)
(* Samples, times and weights are exact rationals <<num, den>> (den > 0,   *)
(* lowest terms); the code works in 64-bit floats, whose rounding error    *)
(* is not modelled.  A call is one atomic action: it records the call in   *)
(* `call` and what it returned or raised in `ret`.                         *)
(***************************************************************************)
EXTENDS Integers, Sequences, FiniteSets, TLC

VARIABLES call, ret, dirs, files

vars == <<call, ret, dirs, files>>

\* ------------------------------------------------------------------ bounds
\* durations are MaxDurNum/DurDen seconds at most, in steps of 1/DurDen
MaxDurNum == 3
DurDen == 2
MaxRate == 2
\* buffers given to the effects hold at most MaxLen samples, each a multiple
\* of 1/SampleDen of magnitude at most SampleMaxNum/SampleDen
MaxLen == 2
SampleDen == 8
SampleMaxNum == 12
\* mix_layers is given at most MaxLayers layers of at most MixMaxLen samples
MaxLayers == 2
MixMaxLen == 2
\* export_wav is given at most ExportMaxLen samples
ExportMaxLen == 2

\* ------------------------------------------------------- rational numbers
Abs(x) == IF x < 0 THEN -x ELSE x

RECURSIVE Gcd(_, _)
Gcd(a, b) == IF b = 0 THEN a ELSE Gcd(b, a % b)

\* n/d in lowest terms; a zero denominator is a float's inf (<<1, 0>>,
\* <<-1, 0>>) or nan (<<0, 0>>)
Rat(n, d) ==
    LET g == Gcd(Abs(n), Abs(d))
        s == IF d < 0 THEN -1 ELSE 1
    IN  IF d = 0 THEN <<IF n > 0 THEN 1 ELSE IF n < 0 THEN -1 ELSE 0, 0>>
        ELSE <<(s * n) \div g, (s * d) \div g>>

RInt(n) == <<n, 1>>
RZero == RInt(0)
ROne == RInt(1)
RAdd(a, b) == Rat(a[1] * b[2] + b[1] * a[2], a[2] * b[2])
RNeg(a) == <<-a[1], a[2]>>
RSub(a, b) == RAdd(a, RNeg(b))
RMul(a, b) == Rat(a[1] * b[1], a[2] * b[2])
RDiv(a, b) == Rat(a[1] * b[2], a[2] * b[1])
RAbs(a) == <<Abs(a[1]), a[2]>>
RLt(a, b) == a[1] * b[2] < b[1] * a[2]
RLe(a, b) == a[1] * b[2] <= b[1] * a[2]
RMax(a, b) == IF RLt(a, b) THEN b ELSE a
RMin(a, b) == IF RLt(b, a) THEN b ELSE a
RFloor(a) == a[1] \div a[2]
\* Python's int(x): truncation toward zero
Trunc(a) == IF a[1] >= 0 THEN a[1] \div a[2] ELSE -((-a[1]) \div a[2])
\* Python's round(x) and numpy's np.round(x): to nearest, ties to even
RoundHalfEven(a) ==
    LET f == RFloor(a)
        twice == 2 * a[1] - 2 * f * a[2]     \* 2 * frac(a) * den
    IN  IF twice < a[2] THEN f
        ELSE IF twice > a[2] THEN f + 1
        ELSE IF f % 2 = 0 THEN f ELSE f + 1
\* x % 1.0
Frac(a) == RSub(a, RInt(RFloor(a)))
\* np.clip(x, lo, hi)
Clip(a, lo, hi) == RMin(RMax(a, lo), hi)

\* ------------------------------------------------------- buffers (arrays)
RECURSIVE SumSeq(_)
SumSeq(s) == IF s = <<>> THEN RZero ELSE RAdd(Head(s), SumSeq(Tail(s)))

RECURSIVE MaxAbs(_)
\* np.max(np.abs(s)) of a non-empty array
MaxAbs(s) ==
    IF Len(s) = 1 THEN RAbs(s[1]) ELSE RMax(RAbs(Head(s)), MaxAbs(Tail(s)))

Scale(s, k) == [i \in 1..Len(s) |-> RMul(s[i], k)]
Zeros(n) == [i \in 1..n |-> RZero]

\* what a call returned, or the exception it raised
Ok(v) == [err |-> "none", val |-> v]
Raise(e) == [err |-> e, val |-> <<>>]
NoCall == [op |-> "none"]

\* ------------------------------------------------------------- oscillators
None == <<>>

\* inputs the oscillators are called with
Durations == {Rat(k, DurDen) : k \in (-MaxDurNum)..MaxDurNum}
Rates == 1..MaxRate
Freqs == {<<1, 1>>, <<3, 4>>, <<-1, 3>>}
Duties == {<<0, 1>>, <<1, 4>>, <<1, 2>>, <<2, 1>>}
\* values np.random.uniform(-1.0, 1.0) may draw (the interval is half open)
UniformDraws == {<<-1, 1>>, <<0, 1>>, <<1, 2>>}
\* values np.random.randn may draw (unbounded)
NormalDraws == {-1, 2}

\* int(duration * sample_rate), as an operator so that every oscillator
\* computes its length in one place
NumSamplesRound(duration, sample_rate) ==
    RoundHalfEven(RMul(duration, RInt(sample_rate)))
NumSamples(duration, sample_rate) == Trunc(RMul(duration, RInt(sample_rate)))

\* np.linspace(0, duration, num, endpoint=False); num < 0 raises ValueError
Linspace(duration, num) ==
    [i \in 1..num |-> RMul(RInt(i - 1), RDiv(duration, RInt(num)))]

\* np.sin(2 * np.pi * x), x in turns.  Exact at the multiples of 1/12 turn
\* (0, 1/2, 1); elsewhere Bhaskara's rational approximation
\* sin(pi*q) ~ 16q(1-q) / (5 - 4q(1-q)), which stays within [-1, 1].
SinTurns(x) ==
    LET p == Frac(x)
        neg == RLe(<<1, 2>>, p)
        q == RMul(RInt(2), IF neg THEN RSub(p, <<1, 2>>) ELSE p)
        u == RMul(q, RSub(ROne, q))
        v == RDiv(RMul(RInt(16), u), RSub(RInt(5), RMul(RInt(4), u)))
    IN  IF neg THEN RNeg(v) ELSE v

\* np.sign
Sign(a) == IF a[1] > 0 THEN ROne ELSE IF a[1] < 0 THEN RInt(-1) ELSE RZero

square_wave(freq, duration, sample_rate) ==
    LET num_samples == NumSamples(duration, sample_rate)
        t == Linspace(duration, num_samples)
    IN  IF num_samples < 0 THEN Raise("ValueError")
        ELSE Ok([i \in 1..num_samples |-> Sign(SinTurns(RMul(freq, t[i])))])

pulse_wave(freq, duration, duty_cycle, duty, sample_rate) ==
    LET dc0 == IF duty # None THEN duty ELSE duty_cycle
        dc == Clip(dc0, <<1, 100>>, <<99, 100>>)
        num_samples == NumSamples(duration, sample_rate)
        t == Linspace(duration, num_samples)
    IN  IF num_samples < 0 THEN Raise("ValueError")
        ELSE Ok([i \in 1..num_samples |->
                    IF RLt(Frac(RMul(freq, t[i])), dc) THEN ROne ELSE RInt(-1)])

triangle_wave(freq, duration, sample_rate) ==
    LET num_samples == NumSamples(duration, sample_rate)
        t == Linspace(duration, num_samples)
    IN  IF num_samples < 0 THEN Raise("ValueError")
        ELSE Ok([i \in 1..num_samples |->
                    RSub(RMul(RInt(2),
                              RAbs(RMul(RInt(2),
                                        RSub(Frac(RMul(freq, t[i])), <<1, 2>>)))),
                         ROne)])

sawtooth_wave(freq, duration, sample_rate) ==
    LET num_samples == NumSamples(duration, sample_rate)
        t == Linspace(duration, num_samples)
    IN  IF num_samples < 0 THEN Raise("ValueError")
        ELSE Ok([i \in 1..num_samples |->
                    RSub(RMul(RInt(2), Frac(RMul(freq, t[i]))), ROne)])

sine_wave(freq, duration, sample_rate) ==
    LET num_samples == NumSamples(duration, sample_rate)
        t == Linspace(duration, num_samples)
    IN  IF num_samples < 0 THEN Raise("ValueError")
        ELSE Ok([i \in 1..num_samples |-> SinTurns(RMul(freq, t[i]))])

\* The noise oscillators draw random numbers: each is the SET of results the
\* call may have.
white_noise(duration, sample_rate) ==
    LET num_samples == NumSamples(duration, sample_rate)
    IN  IF num_samples < 0 THEN {Raise("ValueError")}
        ELSE {Ok(u) : u \in [1..num_samples -> UniformDraws]}

\* the mean removal alone, without the division by the peak
MeanPeakNormalize_mean_only(x) ==
    IF Len(x) = 0 THEN Raise("ValueError")
    ELSE LET mean == RDiv(SumSeq(x), RInt(Len(x)))
         IN  Ok([i \in 1..Len(x) |-> RSub(x[i], mean)])

\* x - np.mean(x), then x / max|x| when that is > 0; np.max of an empty array
\* raises ValueError (np.mean of it is only a warning)
MeanPeakNormalize(x) ==
    IF Len(x) = 0 THEN Raise("ValueError")
    ELSE LET mean == RDiv(SumSeq(x), RInt(Len(x)))
             centred == [i \in 1..Len(x) |-> RSub(x[i], mean)]
             max_val == MaxAbs(centred)
         IN  IF RLt(RZero, max_val)
             THEN Ok([i \in 1..Len(x) |-> RDiv(centred[i], max_val)])
             ELSE Ok(centred)

\* np.cumsum
CumSum(w) == [i \in 1..Len(w) |-> SumSeq(SubSeq(w, 1, i))]

brown_noise(duration, sample_rate) ==
    LET num_samples == NumSamples(duration, sample_rate)
    IN  IF num_samples < 0 THEN {Raise("ValueError")}
        ELSE {MeanPeakNormalize(CumSum([i \in 1..num_samples |-> RInt(white[i])])) :
                 white \in [1..num_samples -> NormalDraws]}

num_rows == 16

RECURSIVE SumsOf(_)
\* the sums that k draws of np.random.randn() may have
SumsOf(k) ==
    IF k = 0 THEN {0} ELSE {s + d : s \in SumsOf(k - 1), d \in NormalDraws}

RECURSIVE SumOver(_, _)
SumOver(f, S) ==
    IF S = {} THEN 0
    ELSE LET x == CHOOSE y \in S : TRUE IN f[x] + SumOver(f, S \ {x})

\* Row j is drawn at i = 0 and again at every i that 2^j divides.  Within
\* num_samples samples only the rows with 2^j < num_samples are drawn again;
\* the other rows add one constant, the sum of their first draws, to every
\* running_sum, so they are drawn as that sum.
pink_noise(duration, sample_rate) ==
    LET num_samples == NumSamples(duration, sample_rate)
        live == {j \in 0..(num_rows - 1) : 2^j < num_samples}
        redraws == {<<j, k>> : j \in live, k \in 0..(num_samples - 1)}
        drawn == {jk \in redraws : jk[2] * 2^(jk[1]) < num_samples}
    IN  IF num_samples < 0 THEN {Raise("ValueError")}
        ELSE IF num_samples = 0 THEN {MeanPeakNormalize(<<>>)}
        ELSE {MeanPeakNormalize(
                 [i \in 1..num_samples |->
                     RInt(rest
                          + SumOver([j \in live |-> rows[<<j, (i - 1) \div 2^j>>]], live)
                          + fresh[i])]) :
                 rest \in SumsOf(num_rows - Cardinality(live)),
                 rows \in [drawn -> NormalDraws],
                 fresh \in [1..num_samples -> NormalDraws]}

Colors == {"white", "brown", "pink", "blue"}

noise(duration, color, sample_rate) ==
    IF color = "brown" THEN brown_noise(duration, sample_rate)
    ELSE IF color = "pink" THEN pink_noise(duration, sample_rate)
    ELSE white_noise(duration, sample_rate)

PeriodicOps == {"square_wave", "pulse_wave", "triangle_wave", "sawtooth_wave",
                "sine_wave"}
NoiseOps == {"white_noise", "brown_noise", "pink_noise", "noise"}
OscOps == PeriodicOps \cup NoiseOps

\* ------------------------------------------------ oscillator calls (SpecOsc)
\* The oscillators are pure: a behaviour is one call, its arguments drawn in
\* the initial state and its result set by the call's action.
Pending == [err |-> "pending", val |-> <<>>]

OscCalls ==
    {[op |-> o, freq |-> f, duration |-> d, sample_rate |-> r] :
        o \in PeriodicOps \ {"pulse_wave"}, f \in Freqs, d \in Durations, r \in Rates}
    \cup
    {[op |-> "pulse_wave", freq |-> f, duration |-> d, sample_rate |-> r,
      duty_cycle |-> dc, duty |-> du] :
        f \in Freqs, d \in Durations, r \in Rates, dc \in Duties, du \in {None, <<3, 4>>}}
    \cup
    {[op |-> o, duration |-> d, sample_rate |-> r] :
        o \in NoiseOps \ {"noise"}, d \in Durations, r \in Rates}
    \cup
    {[op |-> "noise", duration |-> d, sample_rate |-> r, color |-> c] :
        d \in Durations, r \in Rates, c \in Colors}

CallSquare ==
    /\ call.op = "square_wave" /\ ret = Pending
    /\ ret' = square_wave(call.freq, call.duration, call.sample_rate)
    /\ UNCHANGED <<call, dirs, files>>

CallPulse ==
    /\ call.op = "pulse_wave" /\ ret = Pending
    /\ ret' = pulse_wave(call.freq, call.duration, call.duty_cycle, call.duty,
                         call.sample_rate)
    /\ UNCHANGED <<call, dirs, files>>

CallTriangle ==
    /\ call.op = "triangle_wave" /\ ret = Pending
    /\ ret' = triangle_wave(call.freq, call.duration, call.sample_rate)
    /\ UNCHANGED <<call, dirs, files>>

CallSawtooth ==
    /\ call.op = "sawtooth_wave" /\ ret = Pending
    /\ ret' = sawtooth_wave(call.freq, call.duration, call.sample_rate)
    /\ UNCHANGED <<call, dirs, files>>

CallSine ==
    /\ call.op = "sine_wave" /\ ret = Pending
    /\ ret' = sine_wave(call.freq, call.duration, call.sample_rate)
    /\ UNCHANGED <<call, dirs, files>>

CallWhiteNoise ==
    /\ call.op = "white_noise" /\ ret = Pending
    /\ ret' \in white_noise(call.duration, call.sample_rate)
    /\ UNCHANGED <<call, dirs, files>>

CallBrownNoise ==
    /\ call.op = "brown_noise" /\ ret = Pending
    /\ ret' \in brown_noise(call.duration, call.sample_rate)
    /\ UNCHANGED <<call, dirs, files>>

CallPinkNoise ==
    /\ call.op = "pink_noise" /\ ret = Pending
    /\ ret' \in pink_noise(call.duration, call.sample_rate)
    /\ UNCHANGED <<call, dirs, files>>

CallNoise ==
    /\ call.op = "noise" /\ ret = Pending
    /\ ret' \in noise(call.duration, call.color, call.sample_rate)
    /\ UNCHANGED <<call, dirs, files>>

InitOsc ==
    /\ call \in OscCalls
    /\ ret = Pending
    /\ dirs = {}
    /\ files = <<>>

NextOsc ==
    \/ CallSquare
    \/ CallPulse
    \/ CallTriangle
    \/ CallSawtooth
    \/ CallSine
    \/ CallWhiteNoise
    \/ CallBrownNoise
    \/ CallPinkNoise
    \/ CallNoise

SpecOsc == InitOsc /\ [][NextOsc]_vars

\* C1 (as stated): every oscillator called with duration >= 0 returns a buffer
\* of exactly round(duration x sample_rate) samples.
C1_LengthIsRound ==
    (call.op \in OscOps /\ ret.err = "none" /\ call.duration[1] >= 0)
        => Len(ret.val) = RoundHalfEven(RMul(call.duration, RInt(call.sample_rate)))

IsBrownOrPink ==
    \/ call.op \in {"brown_noise", "pink_noise"}
    \/ call.op = "noise" /\ call.color \in {"brown", "pink"}

\* C1 (amended): every oscillator called with duration >= 0 returns a buffer
\* of exactly floor(duration x sample_rate) samples, the product rounded down
\* and not to nearest; brown_noise and pink_noise raise ValueError instead
\* when that count is 0.
C1_LengthIsTruncated ==
    (call.op \in OscOps /\ ret # Pending /\ call.duration[1] >= 0)
        => LET n == (call.duration[1] * call.sample_rate) \div call.duration[2]
           IN  IF IsBrownOrPink /\ n = 0
               THEN ret.err = "ValueError"
               ELSE ret.err = "none" /\ Len(ret.val) = n

\* C1 witness: a call that returned a buffer whose length is the product
\* rounded down where rounding to nearest gives one sample more (1.5 -> 1).
C1_Witness ==
    /\ call.op \in OscOps /\ ret.err = "none"
    /\ call.duration = <<3, 2>> /\ call.sample_rate = 1
    /\ Len(ret.val) = 1

\* C2: every oscillator called with a duration <= 0 returns an empty buffer
\* and raises nothing.
C2_NonPositiveDurationIsEmpty ==
    (call.op \in OscOps /\ ret # Pending /\ call.duration[1] <= 0)
        => ret = Ok(<<>>)

\* ---------------------------------------------------------------- effects
SampleVals == {Rat(k, SampleDen) : k \in (-SampleMaxNum)..SampleMaxNum}
RECURSIVE SeqsUpTo(_, _)
\* the sequences over S of length at most n
SeqsUpTo(S, n) ==
    IF n = 0 THEN {<<>>}
    ELSE LET shorter == SeqsUpTo(S, n - 1)
         IN  shorter \cup {Append(b, x) : b \in {c \in shorter : Len(c) = n - 1}, x \in S}
Buffers == SeqsUpTo(SampleVals, MaxLen)
BitsArgs == {-1, 0, 1, 2, 3, 4, 16, 17}

Min(a, b) == IF a < b THEN a ELSE b
Max(a, b) == IF a > b THEN a ELSE b

\* bitcrush with the rescaling done by levels, not levels / 2
bitcrush_rescale_by_levels(samples, bits) ==
    LET b == Max(1, Min(bits, 16))
        levels == 2^b
    IN  [i \in 1..Len(samples) |->
            Clip(Rat(RoundHalfEven(RMul(samples[i], Rat(levels, 2))), levels),
                 RInt(-1), ROne)]

\* bitcrush with the scaled sample truncated (int()), not rounded
bitcrush_truncating(samples, bits) ==
    LET b == Max(1, Min(bits, 16))
        levels == 2^b
    IN  [i \in 1..Len(samples) |->
            Clip(RDiv(RInt(Trunc(RMul(samples[i], Rat(levels, 2)))), Rat(levels, 2)),
                 RInt(-1), ROne)]

bitcrush(samples, bits) ==
    LET b == Max(1, Min(bits, 16))
        levels == 2^b
        quantized == [i \in 1..Len(samples) |->
                         RDiv(RInt(RoundHalfEven(RMul(samples[i], Rat(levels, 2)))),
                              Rat(levels, 2))]
    IN  [i \in 1..Len(samples) |-> Clip(quantized[i], RInt(-1), ROne)]

FxCalls ==
    {[op |-> "bitcrush", samples |-> x, bits |-> b] : x \in Buffers, b \in BitsArgs}

CallBitcrush ==
    /\ call.op = "bitcrush" /\ ret = Pending
    /\ ret' = Ok(bitcrush(call.samples, call.bits))
    /\ UNCHANGED <<call, dirs, files>>

InitFx ==
    /\ call \in FxCalls
    /\ ret = Pending
    /\ dirs = {}
    /\ files = <<>>

NextFx ==
    \/ CallBitcrush

SpecFx == InitFx /\ [][NextFx]_vars

\* C3: bitcrush is idempotent: crushing its own output again at the same bit
\* depth gives that output back, sample for sample.
C3_BitcrushIdempotent ==
    (call.op = "bitcrush" /\ ret # Pending)
        => bitcrush(ret.val, call.bits) = ret.val

\* C3 witness: bitcrush changed a buffer holding a sample of magnitude above 1
\* at a bit depth outside [1, 16].
C3_Witness ==
    /\ call.op = "bitcrush" /\ ret.err = "none"
    /\ call.bits = 17
    /\ ret.val # call.samples
    /\ \E i \in 1..Len(call.samples) : RLt(ROne, RAbs(call.samples[i]))

\* the bit depth bitcrush works at, and half its level count
ClampedBits(bits) == IF bits < 1 THEN 1 ELSE IF bits > 16 THEN 16 ELSE bits
HalfLevels(bits) == 2^(ClampedBits(bits) - 1)
\* the values one output sample takes over all the input samples
OutputValues(bits) == {bitcrush(<<x>>, bits)[1] : x \in SampleVals}
\* the input grid is fine enough to reach every level
GridReachesLevels(bits) == HalfLevels(bits) <= SampleDen

\* every output sample is a multiple of 2/2^bits in [-1, 1], and no such
\* multiple is nearer to the input sample
C4_NearestLevel ==
    LET h == HalfLevels(call.bits)
    IN  /\ Len(ret.val) = Len(call.samples)
        /\ \A i \in 1..Len(ret.val) :
              LET y == ret.val[i]
                  x == call.samples[i]
              IN  /\ RLe(RInt(-1), y) /\ RLe(y, ROne)
                  /\ RMul(y, RInt(h))[2] = 1
                  /\ RLe(RAbs(RSub(y, Clip(x, RInt(-1), ROne))), Rat(1, 2 * h))
                  /\ GridReachesLevels(call.bits) =>
                        \A k \in (-h)..h :
                            RLe(RAbs(RSub(y, x)), RAbs(RSub(Rat(k, h), x)))

\* C4 (as stated): with bits clamped into [1, 16] the output samples take
\* 2^bits values over all inputs, each in [-1, 1] and nearest to its input.
C4_TwoToTheBitsLevels ==
    (call.op = "bitcrush" /\ ret # Pending)
        => /\ C4_NearestLevel
           /\ GridReachesLevels(call.bits) =>
                 Cardinality(OutputValues(call.bits)) = 2^ClampedBits(call.bits)

\* C4 (amended): with bits clamped into [1, 16] the output samples take
\* 2^bits + 1 values over all inputs, the multiples of 2/2^bits from -1 to 1
\* (both ends and 0 included), each the level nearest to its input.
C4_TwoToTheBitsPlusOneLevels ==
    (call.op = "bitcrush" /\ ret # Pending)
        => /\ C4_NearestLevel
           /\ GridReachesLevels(call.bits) =>
                 OutputValues(call.bits) =
                    {Rat(k, HalfLevels(call.bits)) :
                        k \in (-HalfLevels(call.bits))..HalfLevels(call.bits)}
           /\ GridReachesLevels(call.bits) =>
                 Cardinality(OutputValues(call.bits)) = 2^ClampedBits(call.bits) + 1

\* C4 witness: a 1-bit crush (bits given as 0, clamped to 1) whose output
\* holds the three levels' middle one, 0, next to an end level.
C4_Witness ==
    /\ call.op = "bitcrush" /\ ret.err = "none"
    /\ call.bits = 0
    /\ ret.val = <<RZero, ROne>>
    /\ call.samples = <<Rat(3, 8), Rat(3, 2)>>

\* ------------------------------------------------------------------ mixer
MixVals == {<<0, 1>>, <<-3, 2>>}
WeightVals == {<<1, 2>>, <<-2, 1>>}
NormVals == {<<0, 1>>, <<-3, 2>>, <<1, 2>>}
Layer == SeqsUpTo(MixVals, MixMaxLen)
LayerLists == SeqsUpTo(Layer, MaxLayers)
WeightArgs == {None} \cup {[kind |-> "list", items |-> w] : w \in SeqsUpTo(WeightVals, MaxLayers)}

\* the positional arguments of mix_layers: one Python list of layers, or the
\* layers themselves
AsList(layers) == <<[kind |-> "list", items |-> layers]>>
AsArgs(layers) == [i \in 1..Len(layers) |-> [kind |-> "array", items |-> layers[i]]]

RECURSIVE MaxLenOf(_)
\* max(len(layer) for layer in layer_list), layer_list not empty
MaxLenOf(ls) ==
    IF Len(ls) = 1 THEN Len(ls[1]) ELSE Max(Len(Head(ls)), MaxLenOf(Tail(ls)))

\* the padding put in front of the layer: np.pad(layer, (max_len - len(layer), 0))
PadFront(layer, max_len) ==
    [i \in 1..max_len |->
        IF i > max_len - Len(layer) THEN layer[i - (max_len - Len(layer))] ELSE RZero]

\* np.pad(layer, (0, max_len - len(layer)), mode='constant')
Pad(layer, max_len) ==
    [i \in 1..max_len |-> IF i <= Len(layer) THEN layer[i] ELSE RZero]

RECURSIVE WeightedSum(_, _, _)
\* mixed = zeros(max_len); for layer, weight in zip(...): mixed += layer * weight
WeightedSum(padded, weights, max_len) ==
    IF padded = <<>> \/ weights = <<>> THEN Zeros(max_len)
    ELSE LET rest == WeightedSum(Tail(padded), Tail(weights), max_len)
         IN  [i \in 1..max_len |->
                 RAdd(RMul(Head(padded)[i], Head(weights)), rest[i])]

\* the guard with the division done whatever the peak
PreventClippingAlways(mixed) ==
    IF Len(mixed) = 0 THEN Raise("ValueError")
    ELSE LET max_val == MaxAbs(mixed)
         IN  IF RLt(RZero, max_val)
             THEN Ok([i \in 1..Len(mixed) |-> RDiv(mixed[i], max_val)])
             ELSE Ok(mixed)

\* the clipping guard of mix_layers; np.max of an empty array raises
PreventClipping(mixed) ==
    IF Len(mixed) = 0 THEN Raise("ValueError")
    ELSE LET max_val == MaxAbs(mixed)
         IN  IF RLt(ROne, max_val)
             THEN Ok([i \in 1..Len(mixed) |-> RDiv(mixed[i], max_val)])
             ELSE Ok(mixed)

\* mix_layers without the weight-count check: zip() stops at the shorter list
mix_layers_unchecked(args, weights) ==
    LET layer_list ==
            IF Len(args) = 1 /\ args[1].kind = "list" THEN args[1].items
            ELSE [i \in 1..Len(args) |-> args[i].items]
        n == Len(layer_list)
        max_len == MaxLenOf(layer_list)
        padded_layers == [k \in 1..n |-> Pad(layer_list[k], max_len)]
        ws == IF weights = None THEN [k \in 1..n |-> Rat(1, n)] ELSE weights.items
    IN  IF n = 0 THEN Ok(<<>>)
        ELSE PreventClipping(WeightedSum(padded_layers, ws, max_len))

mix_layers(args, weights) ==
    LET layer_list ==
            IF Len(args) = 1 /\ args[1].kind = "list" THEN args[1].items
            ELSE [i \in 1..Len(args) |-> args[i].items]
        n == Len(layer_list)
        max_len == MaxLenOf(layer_list)
        padded_layers == [k \in 1..n |-> Pad(layer_list[k], max_len)]
        ws == IF weights = None THEN [k \in 1..n |-> Rat(1, n)] ELSE weights.items
    IN  IF n = 0 THEN Ok(<<>>)
        ELSE IF weights # None /\ Len(weights.items) # n THEN Raise("ValueError")
        ELSE PreventClipping(WeightedSum(padded_layers, ws, max_len))

\* target_db is given in steps of 20 dB, for which 10 ** (target_db / 20.0)
\* is a rational number
TargetDbs == {-40, -20, 0, 20}
TargetAmplitude(target_db) ==
    LET e == target_db \div 20
    IN  IF e >= 0 THEN <<10^e, 1>> ELSE <<1, 10^(-e)>>

\* normalize without the zero-peak return
normalize_unguarded(samples, target_db) ==
    IF Len(samples) = 0 THEN samples
    ELSE LET peak == MaxAbs(samples)
             scale_factor == RDiv(TargetAmplitude(target_db), peak)
         IN  [i \in 1..Len(samples) |-> RMul(samples[i], scale_factor)]

normalize(samples, target_db) ==
    IF Len(samples) = 0 THEN samples
    ELSE LET peak == MaxAbs(samples)
             target_amplitude == TargetAmplitude(target_db)
             scale_factor == RDiv(target_amplitude, peak)
         IN  IF peak = RZero THEN samples
             ELSE [i \in 1..Len(samples) |-> RMul(samples[i], scale_factor)]

\* ------------------------------------------------- mixer calls (SpecMix)
MixCalls ==
    {[op |-> "mix_layers", convention |-> c, layers |-> ls, weights |-> w] :
        c \in {"list", "args"}, ls \in LayerLists, w \in WeightArgs}
    \cup
    {[op |-> "normalize", samples |-> x, target_db |-> db] :
        x \in SeqsUpTo(NormVals, MixMaxLen), db \in TargetDbs}

\* mix_layers([a, b], weights=w) or mix_layers(a, b, weights=w)
CallMixLayers ==
    /\ call.op = "mix_layers" /\ ret = Pending
    /\ ret' = mix_layers(IF call.convention = "list" THEN AsList(call.layers)
                         ELSE AsArgs(call.layers),
                         call.weights)
    /\ UNCHANGED <<call, dirs, files>>

CallNormalize ==
    /\ call.op = "normalize" /\ ret = Pending
    /\ ret' = Ok(normalize(call.samples, call.target_db))
    /\ UNCHANGED <<call, dirs, files>>

InitMix ==
    /\ call \in MixCalls
    /\ ret = Pending
    /\ dirs = {}
    /\ files = <<>>

NextMix ==
    \/ CallMixLayers
    \/ CallNormalize

SpecMix == InitMix /\ [][NextMix]_vars

\* the weights of a mix_layers call, the default 1/N written out
WeightsOf(c) ==
    IF c.weights = None THEN [k \in 1..Len(c.layers) |-> Rat(1, Len(c.layers))]
    ELSE c.weights.items
WeightsMatch(c) == c.weights = None \/ Len(c.weights.items) = Len(c.layers)
LongestLayer(c) ==
    IF \E k \in 1..Len(c.layers) : \A m \in 1..Len(c.layers) :
           Len(c.layers[m]) <= Len(c.layers[k])
    THEN Len(c.layers[CHOOSE k \in 1..Len(c.layers) : \A m \in 1..Len(c.layers) :
                         Len(c.layers[m]) <= Len(c.layers[k])])
    ELSE 0
RECURSIVE SumTo(_, _)
\* f[1] + ... + f[n]
SumTo(f, n) == IF n = 0 THEN RZero ELSE RAdd(SumTo(f, n - 1), f[n])
\* sample i of the sum over the layers k of w_k * layer_k[i], layer_k[i] read
\* as 0 past the end of layer k
SumAt(c, i) ==
    SumTo([k \in 1..Len(c.layers) |->
              IF i <= Len(c.layers[k]) THEN RMul(WeightsOf(c)[k], c.layers[k][i])
              ELSE RZero],
          Len(c.layers))
PeakAtMostOne(c) == \A i \in 1..LongestLayer(c) : RLe(RAbs(SumAt(c, i)), ROne)

\* C5: mix_layers given a non-empty list of layers and a weights list of
\* another length raises ValueError, in both calling conventions.
C5_WeightCountMismatchRaises ==
    (/\ call.op = "mix_layers" /\ ret # Pending
     /\ call.layers # <<>>
     /\ call.weights # None /\ Len(call.weights.items) # Len(call.layers))
        => ret.err = "ValueError"

\* C5 witness: the layers passed as separate arguments, more weights than
\* layers, and the call raised.
C5_Witness ==
    /\ call.op = "mix_layers" /\ ret.err = "ValueError"
    /\ call.convention = "args"
    /\ Len(call.layers) = 1 /\ Len(call.layers[1]) = MixMaxLen
    /\ call.weights # None /\ Len(call.weights.items) = 2

\* C6: when the weighted sum of a non-empty list of layers has a peak of at
\* most 1.0, mix_layers returns that sum: a buffer as long as the longest
\* layer whose sample i is the sum of w_k * layer_k[i], shorter layers read
\* as 0 past their end; with the weights omitted w_k = 1/N, so a single
\* layer of peak <= 1 comes back unchanged.
C6_MixIsPaddedWeightedSum ==
    (/\ call.op = "mix_layers" /\ ret # Pending
     /\ call.layers # <<>> /\ WeightsMatch(call)
     /\ LongestLayer(call) > 0 /\ PeakAtMostOne(call))
        => /\ ret.err = "none"
           /\ Len(ret.val) = LongestLayer(call)
           /\ \A i \in 1..Len(ret.val) : ret.val[i] = SumAt(call, i)
           /\ (Len(call.layers) = 1 /\ call.weights = None) => ret.val = call.layers[1]

\* C6 witness: two layers of different lengths, one of them empty, mixed with
\* given weights into a sum that is not silence.
C6_Witness ==
    /\ call.op = "mix_layers" /\ ret.err = "none"
    /\ Len(call.layers) = 2 /\ call.weights # None /\ WeightsMatch(call)
    /\ Len(call.layers[1]) = 0 /\ Len(call.layers[2]) = 2
    /\ PeakAtMostOne(call)
    /\ ret.val = <<RZero, Rat(-3, 4)>>

\* C7: for non-empty layers and weights of matching length the result of
\* mix_layers has peak <= 1.0: it is the weighted sum divided by its peak
\* when that peak exceeds 1.0, and the weighted sum itself otherwise.
C7_MixPeakBounded ==
    (/\ call.op = "mix_layers" /\ ret # Pending
     /\ call.layers # <<>> /\ WeightsMatch(call)
     /\ \A k \in 1..Len(call.layers) : Len(call.layers[k]) > 0)
        => /\ ret.err = "none"
           /\ Len(ret.val) = LongestLayer(call)
           /\ \A i \in 1..Len(ret.val) : RLe(RAbs(ret.val[i]), ROne)
           /\ IF PeakAtMostOne(call)
              THEN \A i \in 1..Len(ret.val) : ret.val[i] = SumAt(call, i)
              ELSE \E j \in 1..Len(ret.val) :
                      /\ RLt(ROne, RAbs(SumAt(call, j)))
                      /\ \A i \in 1..Len(ret.val) :
                            /\ RLe(RAbs(SumAt(call, i)), RAbs(SumAt(call, j)))
                            /\ ret.val[i] = RDiv(SumAt(call, i), RAbs(SumAt(call, j)))

\* C7 witness: the weighted sum <<-3/2, -3/4>>, of peak 3/2, came back divided
\* by that peak.
C7_Witness ==
    /\ call.op = "mix_layers" /\ ret.err = "none"
    /\ call.layers = <<(<<Rat(-3, 2), Rat(-3, 2)>>), (<<Rat(-3, 2)>>)>>
    /\ call.weights # None /\ call.weights.items = <<Rat(1, 2), Rat(1, 2)>>
    /\ ret.val = <<RInt(-1), Rat(-1, 2)>>

\* C8: mix_layers raises nothing on degenerate input: an empty layer list
\* gives an empty buffer, and a list holding zero-length layers (all of them,
\* possibly) gives a buffer as long as its longest layer.
C8_DegenerateMixReturns ==
    (/\ call.op = "mix_layers" /\ ret # Pending
     /\ WeightsMatch(call) \/ call.layers = <<>>
     /\ \/ call.layers = <<>>
        \/ \E k \in 1..Len(call.layers) : Len(call.layers[k]) = 0)
        => /\ ret.err = "none"
           /\ Len(ret.val) = LongestLayer(call)

\* the samples of x are all zero (or x is empty)
ZeroPeak(x) == \A i \in 1..Len(x) : x[i] = RZero
AmplitudeOfDb(db) ==
    CASE db = -40 -> <<1, 100>>
      [] db = -20 -> <<1, 10>>
      [] db = 0 -> <<1, 1>>
      [] db = 20 -> <<10, 1>>

\* C9: normalize returns a zero-peak buffer (all zeros, or empty) unchanged
\* and never divides by zero; any other buffer comes back multiplied by one
\* positive factor that brings its peak to exactly 10^(target_db/20).
C9_NormalizeToTargetPeak ==
    (call.op = "normalize" /\ ret # Pending)
        => /\ ret.err = "none"
           /\ Len(ret.val) = Len(call.samples)
           /\ \A i \in 1..Len(ret.val) : ret.val[i][2] > 0
           /\ IF ZeroPeak(call.samples) THEN ret.val = call.samples
              ELSE /\ \E j \in 1..Len(ret.val) :
                         /\ RAbs(ret.val[j]) = AmplitudeOfDb(call.target_db)
                         /\ \A i \in 1..Len(ret.val) : RLe(RAbs(ret.val[i]), RAbs(ret.val[j]))
                   /\ \E j \in 1..Len(ret.val) :
                         /\ call.samples[j] # RZero
                         /\ RLt(RZero, RDiv(ret.val[j], call.samples[j]))
                         /\ \A i \in 1..Len(ret.val) :
                               ret.val[i] =
                                  RMul(call.samples[i], RDiv(ret.val[j], call.samples[j]))

\* C9 witness: silence of two samples came back as it was, at a target of
\* +20 dB.
C9_Witness ==
    /\ call.op = "normalize" /\ ret.err = "none"
    /\ call.samples = <<RZero, RZero>> /\ call.target_db = 20
    /\ ret.val = call.samples

\* a buffer of peak 3/2 was scaled to a peak of 1/10 (-20 dB)
C9_ScaledWitness ==
    /\ call.op = "normalize" /\ ret.err = "none"
    /\ call.samples = <<Rat(1, 2), Rat(-3, 2)>> /\ call.target_db = -20
    /\ ret.val = <<Rat(1, 30), Rat(-1, 10)>>

\* --------------------------------------------------------------- exporter
\* A file name is a sequence of tokens: name parts, "/" and ".wav".  A path
\* is the sequence of its components below config.OUTPUT_DIR, <<>> being
\* OUTPUT_DIR itself; `dirs` holds the directories that exist and `files`
\* maps the paths of the files that exist to what they hold.
Filenames == {<<"a">>, <<"a", ".wav">>, <<"sub", "/", "b">>}
Subdirs == {<<>>, <<"sub">>}
ExportVals == {<<3, 2>>, <<-1, 3>>}
ExportRates == {8000, 22050}

\* filename.endswith('.wav')
EndsWithWav(filename) == filename # <<>> /\ filename[Len(filename)] = ".wav"

RECURSIVE PathParts(_, _)
\* the components of OUTPUT_DIR / filename; cur is the component being read
PathParts(filename, cur) ==
    IF filename = <<>> THEN IF cur = <<>> THEN <<>> ELSE <<cur>>
    ELSE IF Head(filename) = "/"
         THEN (IF cur = <<>> THEN <<>> ELSE <<cur>>) \o PathParts(Tail(filename), <<>>)
         ELSE PathParts(Tail(filename), Append(cur, Head(filename)))

Parent(path) == SubSeq(path, 1, Len(path) - 1)
\* path.mkdir(parents=True, exist_ok=True): the directory and its ancestors
MkdirParents(path, d) == d \cup {SubSeq(path, 1, k) : k \in 0..Len(path)}

\* .astype(np.int16) of an integral value
Int16(v) == ((v + 32768) % 65536) - 32768

\* the conversion without the clip of line 62
ToPcm16_unclipped(samples) ==
    [i \in 1..Len(samples) |-> Int16(Trunc(RMul(samples[i], RInt(32767))))]

\* (np.clip(samples, -1.0, 1.0) * 32767).astype(np.int16)
ToPcm16(samples) ==
    [i \in 1..Len(samples) |->
        Int16(Trunc(RMul(Clip(samples[i], RInt(-1), ROne), RInt(32767))))]

WriteFile(f, path, content) ==
    [p \in DOMAIN f \cup {path} |-> IF p = path THEN content ELSE f[p]]

\* export_wav with the directory made before the emptiness check
export_wav_mkdir_first(samples, filename, sample_rate, d, f) ==
    LET name == IF EndsWithWav(filename) THEN filename ELSE Append(filename, ".wav")
        output_path == PathParts(name, <<>>)
    IN  IF Len(samples) = 0
        THEN [ret |-> Raise("ValueError"),
              dirs |-> MkdirParents(Parent(output_path), d), files |-> f]
        ELSE [ret |-> Ok(output_path),
              dirs |-> MkdirParents(Parent(output_path), d),
              files |-> WriteFile(f, output_path,
                                  [rate |-> sample_rate, data |-> ToPcm16(samples)])]

\* export_wav writing the default rate whatever sample_rate is
export_wav_fixed_rate(samples, filename, sample_rate, d, f) ==
    LET name == IF EndsWithWav(filename) THEN filename ELSE Append(filename, ".wav")
        output_path == PathParts(name, <<>>)
    IN  IF Len(samples) = 0
        THEN [ret |-> Raise("ValueError"), dirs |-> d, files |-> f]
        ELSE [ret |-> Ok(output_path),
              dirs |-> MkdirParents(Parent(output_path), d),
              files |-> WriteFile(f, output_path,
                                  [rate |-> 22050, data |-> ToPcm16(samples)])]

\* export_wav using the file name as given, without lines 46-47
export_wav_name_as_given(samples, filename, sample_rate, d, f) ==
    LET output_path == PathParts(filename, <<>>)
    IN  IF Len(samples) = 0
        THEN [ret |-> Raise("ValueError"), dirs |-> d, files |-> f]
        ELSE [ret |-> Ok(output_path),
              dirs |-> MkdirParents(Parent(output_path), d),
              files |-> WriteFile(f, output_path,
                                  [rate |-> sample_rate, data |-> ToPcm16(samples)])]

\* export_wav(samples, filename, sample_rate) on the file system (d, f): what
\* it returns or raises, and the file system it leaves
export_wav(samples, filename, sample_rate, d, f) ==
    LET name == IF EndsWithWav(filename) THEN filename ELSE Append(filename, ".wav")
        output_path == PathParts(name, <<>>)
    IN  IF Len(samples) = 0
        THEN [ret |-> Raise("ValueError"), dirs |-> d, files |-> f]
        ELSE [ret |-> Ok(output_path),
              dirs |-> MkdirParents(Parent(output_path), d),
              files |-> WriteFile(f, output_path,
                                  [rate |-> sample_rate, data |-> ToPcm16(samples)])]

ensure_output_dir(subdir, d, f) ==
    LET output_path == IF subdir # <<>> THEN PathParts(subdir, <<>>) ELSE <<>>
    IN  [ret |-> Ok(output_path), dirs |-> MkdirParents(output_path, d), files |-> f]

\* ---------------------------------------------- exporter calls (SpecExport)
CallExportWav ==
    \E x \in SeqsUpTo(ExportVals, ExportMaxLen), name \in Filenames, r \in ExportRates :
        LET out == export_wav(x, name, r, dirs, files)
        IN  /\ call' = [op |-> "export_wav", samples |-> x, filename |-> name,
                        sample_rate |-> r]
            /\ ret' = out.ret
            /\ dirs' = out.dirs
            /\ files' = out.files

CallEnsureOutputDir ==
    \E sub \in Subdirs :
        LET out == ensure_output_dir(sub, dirs, files)
        IN  /\ call' = [op |-> "ensure_output_dir", subdir |-> sub]
            /\ ret' = out.ret
            /\ dirs' = out.dirs
            /\ files' = out.files

InitExport ==
    /\ call = NoCall
    /\ ret = Pending
    /\ dirs \in {{}, {<<>>}}
    /\ files = <<>>

NextExport ==
    \/ CallExportWav
    \/ CallEnsureOutputDir

SpecExport == InitExport /\ [][NextExport]_vars

\* the path an export_wav call names
TargetPath(c) ==
    PathParts(IF EndsWithWav(c.filename) THEN c.filename ELSE Append(c.filename, ".wav"),
              <<>>)

\* C10: export_wav on an empty buffer raises ValueError and leaves the file
\* system as it was: no file created or overwritten, no directory created.
C10_EmptyExportRaisesUntouched ==
    [][(call'.op = "export_wav" /\ call'.samples = <<>>)
          => (ret'.err = "ValueError" /\ dirs' = dirs /\ files' = files)]_vars

\* C10 witness: an empty buffer exported under a name whose file exists
\* already: the call raised.
C10_Witness ==
    /\ call.op = "export_wav" /\ call.samples = <<>>
    /\ ret.err = "ValueError"
    /\ TargetPath(call) \in DOMAIN files
    /\ call.filename = <<"sub", "/", "b">>

\* C11: export_wav on a non-empty buffer returns the path of a file that now
\* exists, holds as many samples as the input buffer and carries the
\* sample_rate argument in its header.
C11_ExportWritesFile ==
    (call.op = "export_wav" /\ call.samples # <<>>) =>
        /\ ret.err = "none"
        /\ ret.val = TargetPath(call)
        /\ ret.val \in DOMAIN files
        /\ Len(files[ret.val].data) = Len(call.samples)
        /\ files[ret.val].rate = call.sample_rate

\* C11 witness: a two-sample buffer exported at 8000 Hz over a file that an
\* earlier export left under the same name: the file has two samples at 8000.
C11_Witness ==
    /\ call.op = "export_wav" /\ Len(call.samples) = 2 /\ call.sample_rate = 8000
    /\ call.filename = <<"sub", "/", "b">>
    /\ ret.err = "none"
    /\ Len(files[ret.val].data) = 2 /\ files[ret.val].rate = 8000
    /\ Cardinality(DOMAIN files) = 2

\* C12: every 16-bit value written is clip(x, -1, 1) * 32767 truncated toward
\* zero and lies in [-32767, 32767]: nothing wraps around the int16 range.
C12_PcmClippedTruncated ==
    (call.op = "export_wav" /\ ret.err = "none") =>
        \A i \in 1..Len(call.samples) :
            LET v == files[ret.val].data[i]
            IN  /\ v = Trunc(RMul(Clip(call.samples[i], RInt(-1), ROne), RInt(32767)))
                /\ -32767 <= v /\ v <= 32767

\* C12 witness: the buffer (1.5, -1/3) was exported: 1.5 is clipped to 32767
\* and -10922.33 is truncated toward zero to -10922.
C12_Witness ==
    /\ call.op = "export_wav" /\ call.samples = << <<3, 2>>, <<-1, 3>> >>
    /\ ret.err = "none"
    /\ files[ret.val].data = <<32767, -10922>>

\* the file name without its '.wav' extension
Stem(filename) ==
    IF EndsWithWav(filename) THEN SubSeq(filename, 1, Len(filename) - 1) ELSE filename

\* C13: each successful export puts exactly its samples and rate in the file
\* of its name and leaves every other file as it was, and no other call
\* touches a file, so after any sequence of exports each file holds the most
\* recent export to its name; the file is the same whether the name is given
\* with or without '.wav', and an existing file is overwritten.
C13_LatestExportWins ==
    [][/\ (call'.op = "export_wav" /\ ret'.err = "none") =>
            /\ ret'.val = PathParts(Append(Stem(call'.filename), ".wav"), <<>>)
            /\ DOMAIN files' = DOMAIN files \cup {ret'.val}
            /\ files'[ret'.val] = [rate |-> call'.sample_rate,
                                   data |-> ToPcm16(call'.samples)]
            /\ \A p \in DOMAIN files : p # ret'.val => files'[p] = files[p]
       /\ (call'.op = "export_wav" /\ ret'.err # "none") => files' = files
       /\ call'.op = "ensure_output_dir" => files' = files]_vars

\* C13 witness: "a" (no extension) was exported last and the file a.wav holds
\* that export, next to another file that an earlier export wrote.
C13_Witness ==
    /\ call.op = "export_wav" /\ call.filename = <<"a">>
    /\ call.samples = << <<-1, 3>> >> /\ call.sample_rate = 8000
    /\ ret = Ok(<< <<"a", ".wav">> >>)
    /\ files[<< <<"a", ".wav">> >>] = [rate |-> 8000, data |-> <<-10922>>]
    /\ << <<"sub">>, <<"b", ".wav">> >> \in DOMAIN files

\* ------------------------------------------- concurrent callers (SpecConc)
\* Several callers run ensure_output_dir and export_wav at once on one file
\* system.  call[p] is the frame of caller p (its arguments, its position pc
\* and the pending Path.mkdir frames), ret[p] what it has returned.  A step is
\* one system call: os.mkdir, the is_dir() of the exist_ok handler, the
\* open(..., 'wb') that truncates, and the write of header and samples.
Procs == {"p1", "p2"}
ConcSubdirs == {<<>>, <<"sub">>, <<"sub", "/", "deep">>}
ConcBuffers == {<<>>, << <<3, 2>> >>, << <<-1, 3>>, <<-1, 3>> >>}

ConcCalls ==
    {[op |-> "ensure_output_dir", subdir |-> sub,
      pc |-> "start", stack |-> <<>>, again |-> FALSE] : sub \in ConcSubdirs}
    \cup {[op |-> "export_wav", samples |-> x, filename |-> name, sample_rate |-> r,
           pc |-> "start", stack |-> <<>>, again |-> FALSE] :
              x \in ConcBuffers, name \in Filenames, r \in ExportRates}

\* the directory a call makes: output_path of ensure_output_dir, and
\* output_path.parent of export_wav
DirOf(c) ==
    IF c.op = "ensure_output_dir"
    THEN IF c.subdir # <<>> THEN PathParts(c.subdir, <<>>) ELSE <<>>
    ELSE Parent(TargetPath(c))

\* one activation of Path.mkdir(parents=..., exist_ok=True) on path
MkdirFrame(path, parents) == [path |-> path, parents |-> parents, at |-> "os.mkdir"]

\* the first statements of a call: export_wav raises on an empty buffer,
\* otherwise the call reaches its mkdir(parents=True, exist_ok=True)
Enter(p) ==
    /\ call[p].pc = "start"
    /\ IF call[p].op = "export_wav" /\ call[p].samples = <<>>
       THEN /\ call' = [call EXCEPT ![p].pc = "done"]
            /\ ret' = [ret EXCEPT ![p] = Raise("ValueError")]
       ELSE /\ call' = [call EXCEPT ![p].pc = "mkdir",
                                    ![p].stack = <<MkdirFrame(DirOf(call[p]), TRUE)>>]
            /\ ret' = ret
    /\ UNCHANGED <<dirs, files>>

\* caller p once a Path.mkdir activation has returned, rest being the
\* activations still pending: the last one returning, ensure_output_dir
\* returns its path and export_wav goes on to open the file
Popped(p, rest) ==
    IF rest # <<>>
    THEN [call |-> [call EXCEPT ![p].stack = rest], ret |-> ret]
    ELSE IF call[p].op = "ensure_output_dir"
    THEN [call |-> [call EXCEPT ![p].stack = rest, ![p].pc = "done"],
          ret |-> [ret EXCEPT ![p] = Ok(DirOf(call[p]))]]
    ELSE [call |-> [call EXCEPT ![p].stack = rest, ![p].pc = "open"], ret |-> ret]

\* p leaving its call with exception e
Raised(p, e) ==
    [call |-> [call EXCEPT ![p].stack = <<>>, ![p].pc = "done"],
     ret |-> [ret EXCEPT ![p] = Raise(e)]]

\* os.mkdir with exist_ok=False: an existing directory is an error
OsMkdir_exclusive(p) ==
    /\ call[p].pc = "mkdir"
    /\ LET stack == call[p].stack
           top == stack[Len(stack)]
           rest == SubSeq(stack, 1, Len(stack) - 1)
       IN  /\ top.at = "os.mkdir"
           /\ IF top.path \in dirs \/ top.path \in DOMAIN files
              THEN /\ call' = Raised(p, "FileExistsError").call
                   /\ ret' = Raised(p, "FileExistsError").ret
                   /\ UNCHANGED <<dirs, files>>
              ELSE IF top.path # <<>> /\ Parent(top.path) \notin dirs
              THEN /\ call' = [call EXCEPT ![p].stack =
                                  rest \o <<MkdirFrame(top.path, FALSE),
                                            MkdirFrame(Parent(top.path), TRUE)>>]
                   /\ UNCHANGED <<ret, dirs, files>>
              ELSE /\ dirs' = dirs \cup {top.path}
                   /\ call' = Popped(p, rest).call
                   /\ ret' = Popped(p, rest).ret
                   /\ UNCHANGED files

\* the os.mkdir(self) of the innermost Path.mkdir activation of p.  If the
\* path exists, the handler of OSError runs next (is_dir); if the parent is
\* missing, the activation with parents=True makes the parent and retries
\* with parents=False, the one with parents=False raises; otherwise the
\* directory is made.  The parent of OUTPUT_DIR always exists.
OsMkdir(p) ==
    /\ call[p].pc = "mkdir"
    /\ LET stack == call[p].stack
           top == stack[Len(stack)]
           rest == SubSeq(stack, 1, Len(stack) - 1)
       IN  /\ top.at = "os.mkdir"
           /\ IF top.path \in dirs \/ top.path \in DOMAIN files
              THEN /\ call' = [call EXCEPT ![p].stack =
                                  Append(rest, [top EXCEPT !.at = "is_dir"])]
                   /\ UNCHANGED <<ret, dirs, files>>
              ELSE IF top.path # <<>> /\ Parent(top.path) \notin dirs
              THEN IF top.parents
                   THEN /\ call' = [call EXCEPT ![p].stack =
                                       rest \o <<MkdirFrame(top.path, FALSE),
                                                 MkdirFrame(Parent(top.path), TRUE)>>]
                        /\ UNCHANGED <<ret, dirs, files>>
                   ELSE /\ call' = Raised(p, "FileNotFoundError").call
                        /\ ret' = Raised(p, "FileNotFoundError").ret
                        /\ UNCHANGED <<dirs, files>>
              ELSE /\ dirs' = dirs \cup {top.path}
                   /\ call' = Popped(p, rest).call
                   /\ ret' = Popped(p, rest).ret
                   /\ UNCHANGED files

\* `if not exist_ok or not self.is_dir(): raise` after os.mkdir found the
\* path existing
IsDir(p) ==
    /\ call[p].pc = "mkdir"
    /\ LET stack == call[p].stack
           top == stack[Len(stack)]
           rest == SubSeq(stack, 1, Len(stack) - 1)
           out == IF top.path \in dirs THEN Popped(p, rest)
                  ELSE Raised(p, "FileExistsError")
       IN  /\ top.at = "is_dir"
           /\ call' = out.call
           /\ ret' = out.ret
    /\ UNCHANGED <<dirs, files>>

\* open(filename, 'wb') inside wavfile.write: the file is created, or cut to
\* no bytes if it exists (rate 0 stands for a file without a header yet)
OpenTruncate(p) ==
    /\ call[p].pc = "open"
    /\ files' = WriteFile(files, TargetPath(call[p]), [rate |-> 0, data |-> <<>>])
    /\ call' = [call EXCEPT ![p].pc = "write"]
    /\ UNCHANGED <<ret, dirs>>

\* bytes written from the start of a file that holds old: what lies beyond
\* the written bytes stays
Overlay(new, old) == new \o SubSeq(old, Len(new) + 1, Len(old))

\* wavfile.write flushing the header and the samples through its own file
\* object, from offset 0, and export_wav returning the path
WriteData(p) ==
    /\ call[p].pc = "write"
    /\ LET output_path == TargetPath(call[p])
       IN  /\ files' = WriteFile(files, output_path,
                          [rate |-> call[p].sample_rate,
                           data |-> Overlay(ToPcm16(call[p].samples),
                                            files[output_path].data)])
           /\ ret' = [ret EXCEPT ![p] = Ok(output_path)]
    /\ call' = [call EXCEPT ![p].pc = "done"]
    /\ UNCHANGED dirs

\* a caller whose ensure_output_dir has returned calls it again
Recall(p) ==
    /\ call[p].op = "ensure_output_dir" /\ call[p].pc = "done"
    /\ ret[p].err = "none" /\ ~call[p].again
    /\ call' = [call EXCEPT ![p].pc = "start", ![p].again = TRUE]
    /\ ret' = [ret EXCEPT ![p] = Pending]
    /\ UNCHANGED <<dirs, files>>

InitConc ==
    /\ call \in [Procs -> ConcCalls]
    /\ ret = [p \in Procs |-> Pending]
    /\ dirs \in {{}, {<<>>}}
    /\ files = <<>>

NextConc ==
    \E p \in Procs :
        \/ Enter(p)
        \/ OsMkdir(p)
        \/ IsDir(p)
        \/ OpenTruncate(p)
        \/ WriteData(p)
        \/ Recall(p)

SpecConc == InitConc /\ [][NextConc]_vars

\* the caller has got past its directory creation without raising
PastMkdir(p) ==
    \/ call[p].pc \in {"open", "write"}
    \/ call[p].pc = "done" /\ ret[p].err = "none"

\* C14: whatever the interleaving of callers making the same directory or
\* directories with common missing parents, no caller fails in its directory
\* creation (the only failure is export_wav refusing an empty buffer), the
\* directory of a caller and its ancestors exist once the caller is past the
\* creation, so all exist once every caller has returned; and no step of a
\* repeated ensure_output_dir call changes the file system.
C14_MkdirSafeAndIdempotent ==
    /\ [](\A p \in Procs :
            /\ ret[p].err \in {"pending", "none", "ValueError"}
            /\ ret[p].err = "ValueError" =>
                   (call[p].op = "export_wav" /\ call[p].samples = <<>>)
            /\ PastMkdir(p) =>
                   \A k \in 0..Len(DirOf(call[p])) :
                       SubSeq(DirOf(call[p]), 1, k) \in dirs)
    /\ [][\A p \in Procs :
            (call[p].again /\ call'[p] # call[p]) =>
                (dirs' = dirs /\ files' = files)]_vars

\* C14 witness: p1 has made sub and sub/deep and returned; p2, which found
\* sub's parent missing earlier, now finds on its retry that sub exists
\* (FileExistsError) and is in the exist_ok handler.
C14_Witness ==
    /\ call["p1"].op = "ensure_output_dir" /\ ret["p1"] = Ok(<< <<"sub">>, <<"deep">> >>)
    /\ call["p2"].op = "export_wav" /\ call["p2"].pc = "mkdir"
    /\ call["p2"].stack = <<[path |-> << <<"sub">> >>, parents |-> FALSE, at |-> "is_dir"]>>

\* what a call writes when it runs alone
OutputOf(c) == [rate |-> c.sample_rate, data |-> ToPcm16(c.samples)]

\* C15: once two export_wav calls to one path have both returned, the file
\* is the complete output of one of the two.
C15_LastWriterWins ==
    \A p, q \in Procs :
        (/\ p # q
         /\ call[p].op = "export_wav" /\ call[q].op = "export_wav"
         /\ ret[p].err = "none" /\ ret[q].err = "none"
         /\ ret[p].val = ret[q].val)
        => files[ret[p].val] \in {OutputOf(call[p]), OutputOf(call[q])}

\* ------------------------------------------------- batch driver (SpecBatch)
\* main.generate_all over the category registry.  call is the frame of the
\* run: the categories whose module.generate_all raises an Exception in this
\* run (raising), the position in the loop (i), the locals total_sounds and
\* successful_categories, the modules invoked so far and what was printed of
\* the final summary; ret is what main.generate_all returned or raised.
CATEGORIES ==
    [weapons |-> 20, npc_weapons |-> 15, impacts |-> 30, destruction |-> 25,
     bosses |-> 8, mining |-> 12, environment |-> 10, ui |-> 19, movement |-> 12]

\* sorted(CATEGORIES.keys())
SortedCategories ==
    <<"bosses", "destruction", "environment", "impacts", "mining", "movement",
      "npc_weapons", "ui", "weapons">>

\* generate_category(category_name): the count it returns, expected_count
\* when module.generate_all() returned and 0 when it raised and was caught
generate_category(category_name, raising) ==
    IF category_name \notin DOMAIN CATEGORIES THEN 0
    ELSE IF category_name \in raising THEN 0
    ELSE CATEGORIES[category_name]

\* one iteration of the loop of generate_all
GenerateCategory ==
    /\ call.op = "generate_all" /\ call.pc = "loop"
    /\ LET category_name == SortedCategories[call.i]
           sounds_generated == generate_category(category_name, call.raising)
       IN  call' = [call EXCEPT
                      !.invoked = Append(@, category_name),
                      !.total_sounds = IF sounds_generated > 0
                                       THEN @ + sounds_generated ELSE @,
                      !.successful_categories = IF sounds_generated > 0
                                                THEN @ + 1 ELSE @,
                      !.i = @ + 1,
                      !.pc = IF call.i = Len(SortedCategories)
                             THEN "summary" ELSE "loop"]
    /\ UNCHANGED <<ret, dirs, files>>

\* the final summary: the line with elapsed/total_sounds divides by zero
\* when no category succeeded, after the first lines were printed
FinalSummary ==
    /\ call.op = "generate_all" /\ call.pc = "summary"
    /\ LET head == <<"Generation Complete", "Total sounds generated",
                     "Successful categories", "Total time">>
       IN  IF call.total_sounds = 0
           THEN /\ call' = [call EXCEPT !.pc = "done", !.printed = head]
                /\ ret' = Raise("ZeroDivisionError")
           ELSE /\ call' = [call EXCEPT !.pc = "done",
                               !.printed = head \o <<"Average", "Output directory">>]
                /\ ret' = Ok(None)
    /\ UNCHANGED <<dirs, files>>

InitBatch ==
    /\ call \in {[op |-> "generate_all", raising |-> r, pc |-> "loop", i |-> 1,
                  total_sounds |-> 0, successful_categories |-> 0,
                  invoked |-> <<>>, printed |-> <<>>] :
                     r \in SUBSET DOMAIN CATEGORIES}
    /\ ret = Pending
    /\ dirs = {<<>>}
    /\ files = <<>>

NextBatch ==
    \/ GenerateCategory
    \/ FinalSummary

SpecBatch == InitBatch /\ [][NextBatch]_vars

\* C16: whichever categories raise, the run invokes every registered category
\* once in sorted order, no exception escapes, the final summary is printed
\* in full and the totals count the categories that did not raise.
C16_BatchSurvivesFailures ==
    call.pc = "done" =>
        /\ ret.err = "none"
        /\ call.invoked = SortedCategories
        /\ {call.invoked[k] : k \in 1..Len(call.invoked)} = DOMAIN CATEGORIES
        /\ call.printed[Len(call.printed)] = "Output directory"
        /\ call.total_sounds = SumOver(CATEGORIES, DOMAIN CATEGORIES \ call.raising)
        /\ call.successful_categories
               = Cardinality(DOMAIN CATEGORIES \ call.raising)

RECURSIVE ArrayUpTo(_, _)
\* the first k values of content, stored one after the other
ArrayUpTo(content, k) ==
    IF k = 0 THEN <<>> ELSE Append(ArrayUpTo(content, k - 1), content[k])

\* the array holding the values of content: its elements are computed when
\* the array is made
Array(content) == ArrayUpTo(content, Cardinality(DOMAIN content))

\* ------------------------------------------- core operations on the heap
\* numpy arrays are objects: a heap h maps the name of each array to the
\* samples it holds, and an operation gets the name of its input in h.  It
\* gives back what it raised (err), the samples of the array it returned
\* (val), the name of the array whose memory that is (ref) and the heap as
\* the call left it.  An assignment to a subscript (out[i] = ..., out[i] +=
\* ...) changes the array in place; np.zeros, x.copy() and arithmetic make a
\* new array.
Alloc(h, name, content) ==
    [x \in DOMAIN h \cup {name} |-> IF x = name THEN Array(content) ELSE h[x]]
Returned(h, name) == [err |-> "none", val |-> h[name], ref |-> name, heap |-> h]
Raises(h, e) == [err |-> e, val |-> <<>>, ref |-> None, heap |-> h]
\* `return <expression>`: the value is a new array
New(h, name, content) == Returned(Alloc(h, name, content), name)

\* min(0.99, max(0.01, cutoff / (sample_rate / 2.0)))
NormalizedCutoff(cutoff, sample_rate) ==
    RMin(Rat(99, 100), RMax(Rat(1, 100), RDiv(cutoff, RDiv(RInt(sample_rate), RInt(2)))))

\* signal.butter(2, Wn, btype) and signal.iirfilter(2, Wn, btype=...,
\* ftype='butter'): the same second-order Butterworth design
Butter(Wn, btype) == [N |-> 2, Wn |-> Wn, btype |-> btype, ftype |-> "butter"]

\* the default padlen of signal.filtfilt, 3 * max(len(a), len(b)), for the
\* three coefficients of a second-order filter
padlen == 9

\* x after `passes` zero-phase passes of the filter ba.  The filtered samples
\* are not computed: sample i is the term (ba, passes, x, i).
Filtered(ba, x, passes) ==
    [i \in 1..Len(x) |-> [filt |-> ba, passes |-> passes, of |-> x, at |-> i]]

\* signal.filtfilt(b, a, x): ValueError unless x is longer than padlen, else
\* a new array as long as x
filtfilt(ba, x) ==
    IF Len(x) <= padlen THEN Raise("ValueError") ELSE Ok(Filtered(ba, x, 1))

lowpass_filter(h, samples, cutoff, sample_rate) ==
    LET normalized_cutoff == NormalizedCutoff(cutoff, sample_rate)
        out == filtfilt(Butter(normalized_cutoff, "low"), h[samples])
    IN  IF out.err # "none" THEN Raises(h, out.err)
        ELSE New(h, "filtered", out.val)

highpass_filter(h, samples, cutoff, sample_rate) ==
    LET normalized_cutoff == NormalizedCutoff(cutoff, sample_rate)
        out == filtfilt(Butter(normalized_cutoff, "high"), h[samples])
    IN  IF out.err # "none" THEN Raises(h, out.err)
        ELSE New(h, "filtered", out.val)

RECURSIVE FiltfiltTimes(_, _, _, _)
\* `for _ in range(k): filtered = signal.filtfilt(b, a, filtered)` after the
\* first `passes` rounds, x being the copy the loop started from
FiltfiltTimes(ba, x, k, passes) ==
    IF passes >= k THEN Ok(IF passes = 0 THEN x ELSE Filtered(ba, x, passes))
    ELSE IF Len(x) <= padlen THEN Raise("ValueError")
    ELSE FiltfiltTimes(ba, x, k, passes + 1)

\* Q is computed from the clamped resonance and not used: the loop runs
\* int(resonance) times
resonant_filter(h, samples, cutoff, resonance, sample_rate) ==
    LET normalized_cutoff == NormalizedCutoff(cutoff, sample_rate)
        Q == RMax(Rat(1, 2), RMin(resonance, RInt(20)))
        ba == Butter(normalized_cutoff, "low")
        h1 == Alloc(h, "filtered", h[samples])
        out == FiltfiltTimes(ba, h1["filtered"], Trunc(resonance), 0)
    IN  IF out.err # "none" THEN Raises(h1, out.err)
        ELSE New(h1, "filtered", out.val)

RECURSIVE EchoTap(_, _, _, _)
\* `for i in range(d, len(output)): output[i] += output[i - d] * dec` from
\* position i on (positions count from 1): each pass reads what the earlier
\* passes stored
EchoTap(output, d, dec, i) ==
    IF i > Len(output) THEN output
    ELSE EchoTap([output EXCEPT ![i] = RAdd(@, RMul(output[i - d], dec))],
                 d, dec, i + 1)

\* the three echo taps, stored in place in the array `name`
EchoTaps(h, name, delay_samples, decay) ==
    LET d1 == delay_samples
        d2 == Trunc(RMul(RInt(delay_samples), Rat(3, 2)))
        d3 == Trunc(RMul(RInt(delay_samples), Rat(23, 10)))
        o1 == EchoTap(h[name], d1, decay, d1 + 1)
        o2 == EchoTap(o1, d2, RMul(decay, Rat(7, 10)), d2 + 1)
        o3 == EchoTap(o2, d3, RMul(decay, Rat(1, 2)), d3 + 1)
    IN  [h EXCEPT ![name] = o3]

\* simple_reverb returning output with its tail, not output[:len(samples)]
simple_reverb_untrimmed(h, samples, delay, decay) ==
    LET n == Len(h[samples])
        delay_samples == Trunc(RMul(delay, RInt(22050)))
        h1 == Alloc(h, "output", Zeros(n + delay_samples * 3))
        h2 == [h1 EXCEPT !["output"] = h1[samples] \o SubSeq(@, n + 1, Len(@))]
        h3 == EchoTaps(h2, "output", delay_samples, decay)
    IN  IF delay_samples <= 0 \/ delay_samples >= n THEN Returned(h, samples)
        ELSE Returned(h3, "output")

\* simple_reverb folding the tail back onto the start of the kept part
\* instead of discarding it
simple_reverb_folded(h, samples, delay, decay) ==
    LET n == Len(h[samples])
        delay_samples == Trunc(RMul(delay, RInt(22050)))
        h1 == Alloc(h, "output", Zeros(n + delay_samples * 3))
        h2 == [h1 EXCEPT !["output"] = h1[samples] \o SubSeq(@, n + 1, Len(@))]
        h3 == EchoTaps(h2, "output", delay_samples, decay)
        folded == [i \in 1..n |-> RAdd(h3["output"][i], h3["output"][n + i])]
    IN  IF delay_samples <= 0 \/ delay_samples >= n THEN Returned(h, samples)
        ELSE [err |-> "none", val |-> folded, ref |-> "output", heap |-> h3]

\* simple_reverb adding the echoes to the caller's array, with no output buffer
simple_reverb_in_place(h, samples, delay, decay) ==
    LET n == Len(h[samples])
        delay_samples == Trunc(RMul(delay, RInt(22050)))
        h3 == EchoTaps(h, samples, delay_samples, decay)
    IN  IF delay_samples <= 0 \/ delay_samples >= n THEN Returned(h, samples)
        ELSE Returned(h3, samples)

\* simple_reverb(samples, delay, decay): the guard returns the input array
\* itself; otherwise the echoes are accumulated in a new array with room for
\* the tail and the first len(samples) samples of it are returned (a view)
simple_reverb(h, samples, delay, decay) ==
    LET n == Len(h[samples])
        delay_samples == Trunc(RMul(delay, RInt(22050)))
        h1 == Alloc(h, "output", Zeros(n + delay_samples * 3))
        h2 == [h1 EXCEPT !["output"] = h1[samples] \o SubSeq(@, n + 1, Len(@))]
        h3 == EchoTaps(h2, "output", delay_samples, decay)
    IN  IF delay_samples <= 0 \/ delay_samples >= n THEN Returned(h, samples)
        ELSE [err |-> "none", val |-> SubSeq(h3["output"], 1, n),
              ref |-> "output", heap |-> h3]

\* np.linspace(start, stop, num)
LinspaceTo(start, stop, num) ==
    [i \in 1..num |->
        IF num = 1 THEN start
        ELSE RAdd(start, RMul(RInt(i - 1), RDiv(RSub(stop, start), RInt(num - 1))))]

\* np.interp(x, np.arange(len(fp)), fp) for 0 <= x <= len(fp) - 1
Interp(x, fp) ==
    LET j == RFloor(x)
    IN  IF j >= Len(fp) - 1 THEN fp[Len(fp)]
        ELSE RAdd(fp[j + 1], RMul(RSub(x, RInt(j)), RSub(fp[j + 2], fp[j + 1])))

\* pitch_bend reading only the positions that lie within the buffer, without
\* np.clip: the result is shorter than the input
pitch_bend_unclipped(h, samples, start_pitch, end_pitch) ==
    LET n == Len(h[samples])
        pitch_curve == LinspaceTo(start_pitch, end_pitch, n)
        mean == RDiv(SumSeq(pitch_curve), RInt(n))
        cumsum == CumSum(pitch_curve)
        phase_shift == [i \in 1..n |-> RDiv(cumsum[i], mean)]
        within == {i \in 1..n : ~RLt(RInt(n - 1), phase_shift[i])}
        bent == [i \in 1..Cardinality(within) |-> Interp(phase_shift[i], h[samples])]
    IN  IF n = 0 THEN Raises(h, "ValueError")
        ELSE New(h, "bent", bent)

\* pitch_bend with the phase counted from 0 (the cumulative sum before each
\* sample): equal pitches then give the input back
pitch_bend_from_zero(h, samples, start_pitch, end_pitch) ==
    LET n == Len(h[samples])
        pitch_curve == LinspaceTo(start_pitch, end_pitch, n)
        mean == RDiv(SumSeq(pitch_curve), RInt(n))
        cumsum == CumSum(pitch_curve)
        phase_shift == [i \in 1..n |-> RDiv(RSub(cumsum[i], pitch_curve[i]), mean)]
        new_indices == [i \in 1..n |-> Clip(phase_shift[i], RZero, RInt(n - 1))]
        bent == [i \in 1..n |-> Interp(new_indices[i], h[samples])]
    IN  IF n = 0 THEN Raises(h, "ValueError")
        ELSE New(h, "bent", bent)

\* pitch_bend(samples, start_pitch, end_pitch).  On an empty array the mean
\* is nan (a warning) and np.interp raises ValueError: no sample points.
pitch_bend(h, samples, start_pitch, end_pitch) ==
    LET n == Len(h[samples])
        pitch_curve == LinspaceTo(start_pitch, end_pitch, n)
        mean == RDiv(SumSeq(pitch_curve), RInt(n))
        cumsum == CumSum(pitch_curve)
        phase_shift == [i \in 1..n |-> RDiv(cumsum[i], mean)]
        new_indices == [i \in 1..n |-> Clip(phase_shift[i], RZero, RInt(n - 1))]
        bent == [i \in 1..n |-> Interp(new_indices[i], h[samples])]
    IN  IF n = 0 THEN Raises(h, "ValueError")
        ELSE New(h, "bent", bent)

pitch_sweep(h, samples, start_freq, end_freq, duration, sample_rate) ==
    LET start_pitch == ROne
        end_pitch == IF RLt(RZero, start_freq) THEN RDiv(end_freq, start_freq)
                     ELSE Rat(1, 2)
    IN  pitch_bend(h, samples, start_pitch, end_pitch)

\* np.tanh(x) as the rational function x / (1 + |x|): odd, increasing, 0 at
\* 0 and within (-1, 1) like tanh.  The values differ from tanh's; nothing
\* below depends on more than these properties.
Tanh(x) == RDiv(x, RAdd(ROne, RAbs(x)))

\* distortion(samples, drive, amount): np.max of an empty array raises
distortion(h, samples, drive, amount) ==
    LET gain == IF amount # None THEN amount ELSE drive
        driven == Scale(h[samples], gain)
        distorted == [i \in 1..Len(driven) |-> Tanh(driven[i])]
        max_val == MaxAbs(distorted)
    IN  IF Len(distorted) = 0 THEN Raises(h, "ValueError")
        ELSE IF RLt(RZero, max_val)
        THEN New(h, "distorted",
                 [i \in 1..Len(distorted) |->
                     RMul(RDiv(distorted[i], max_val), Rat(9, 10))])
        ELSE New(h, "distorted", distorted)

ring_modulate(h, samples, mod_freq, sample_rate) ==
    LET n == Len(h[samples])
        t == [i \in 1..n |-> Rat(i - 1, sample_rate)]
        modulator == [i \in 1..n |-> SinTurns(RMul(mod_freq, t[i]))]
    IN  New(h, "modulated", [i \in 1..n |-> RMul(h[samples][i], modulator[i])])

\* phaser(samples, rate, depth, sample_rate): the comb is stored sample by
\* sample in a new array of zeros; np.max of an empty array raises
phaser(h, samples, rate, depth, sample_rate) ==
    LET x == h[samples]
        n == Len(x)
        t == [i \in 1..n |-> Rat(i - 1, sample_rate)]
        lfo == [i \in 1..n |-> SinTurns(RMul(rate, t[i]))]
        freq == [i \in 1..n |->
                    RAdd(RInt(1100), RMul(RMul(lfo[i], RInt(900)), depth))]
        delay_samples == [i \in 1..n |->
                             Trunc(RDiv(RInt(sample_rate), RMax(freq[i], RInt(100))))]
        h1 == Alloc(h, "output", Zeros(n))
        h2 == Alloc(h1, "output",
                  [i \in 1..n |->
                      IF delay_samples[i] > 0 /\ i - 1 >= delay_samples[i]
                      THEN RAdd(x[i], RMul(x[i - delay_samples[i]], Rat(7, 10)))
                      ELSE h1["output"][i]])
        half == RMul(depth, Rat(1, 2))
        result == [i \in 1..n |->
                      RAdd(RMul(x[i], RSub(ROne, half)), RMul(h2["output"][i], half))]
        max_val == MaxAbs(result)
    IN  IF n = 0 THEN Raises(h2, "ValueError")
        ELSE IF RLt(RZero, max_val)
        THEN New(h2, "result",
                 [i \in 1..n |-> RMul(RDiv(result[i], max_val), Rat(9, 10))])
        ELSE New(h2, "result", result)

\* ---------------------------------------------------------------- envelopes
\* arr[lo:lo + len(vals)] = vals for lo >= 0 (lo counts from 0): the slice is
\* cut at the end of arr; numpy raises ValueError unless vals is as long as
\* the slice or is a single value, which fills the slice
SetSlice(arr, lo, vals) ==
    LET n == Len(arr)
        first == Min(lo, n)
        last == Min(lo + Len(vals), n)
    IN  IF Len(vals) = 1
        THEN Ok([i \in 1..n |-> IF first < i /\ i <= last THEN vals[1] ELSE arr[i]])
        ELSE IF last - first # Len(vals) THEN Raise("ValueError")
        ELSE Ok([i \in 1..n |-> IF first < i /\ i <= last THEN vals[i - first]
                                ELSE arr[i]])

RECURSIVE SetSlices(_, _)
\* the slice assignments segs, in order, on arr; segs[k] = <<lo, vals>>
SetSlices(arr, segs) ==
    IF segs = <<>> THEN Ok(arr)
    ELSE LET out == SetSlice(arr, Head(segs)[1], Head(segs)[2])
         IN  IF out.err # "none" THEN out ELSE SetSlices(out.val, Tail(segs))

\* samples * envelope: a new array
Times(x, envelope) == [i \in 1..Len(x) |-> RMul(x[i], envelope[i])]

\* adsr_envelope with the phase counts left as first computed, the sustain
\* count being negative when the three others exceed n
AdsrCounts_unscaled(n, attack, decay, release) ==
    LET a0 == Trunc(RMul(RInt(n), attack))
        d0 == Trunc(RMul(RInt(n), decay))
        r0 == Trunc(RMul(RInt(n), release))
    IN  [attack_samples |-> a0, decay_samples |-> d0, release_samples |-> r0,
         sustain_samples |-> n - a0 - d0 - r0, first_sustain |-> n - a0 - d0 - r0]

\* adsr_envelope rescaling with round() in place of int()
AdsrCounts_rounded(n, attack, decay, release) ==
    LET a0 == Trunc(RMul(RInt(n), attack))
        d0 == Trunc(RMul(RInt(n), decay))
        r0 == Trunc(RMul(RInt(n), release))
        total == RAdd(RAdd(attack, decay), release)
        squeeze == n - a0 - d0 - r0 < 0
        attack_samples == IF squeeze THEN RoundHalfEven(RDiv(RMul(RInt(n), attack), total)) ELSE a0
        decay_samples == IF squeeze THEN RoundHalfEven(RDiv(RMul(RInt(n), decay), total)) ELSE d0
        release_samples == IF squeeze THEN RoundHalfEven(RDiv(RMul(RInt(n), release), total)) ELSE r0
    IN  [attack_samples |-> attack_samples, decay_samples |-> decay_samples,
         release_samples |-> release_samples,
         sustain_samples |-> n - attack_samples - decay_samples - release_samples,
         first_sustain |-> n - a0 - d0 - r0]

\* the phase boundaries of adsr_envelope in samples: int() of each fraction
\* of n, recomputed from the fractions divided by their sum when the sustain
\* count first computed (first_sustain) is negative
AdsrCounts(n, attack, decay, release) ==
    LET a0 == Trunc(RMul(RInt(n), attack))
        d0 == Trunc(RMul(RInt(n), decay))
        r0 == Trunc(RMul(RInt(n), release))
        total == RAdd(RAdd(attack, decay), release)
        squeeze == n - a0 - d0 - r0 < 0
        attack_samples == IF squeeze THEN Trunc(RDiv(RMul(RInt(n), attack), total)) ELSE a0
        decay_samples == IF squeeze THEN Trunc(RDiv(RMul(RInt(n), decay), total)) ELSE d0
        release_samples == IF squeeze THEN Trunc(RDiv(RMul(RInt(n), release), total)) ELSE r0
    IN  [attack_samples |-> attack_samples, decay_samples |-> decay_samples,
         release_samples |-> release_samples,
         sustain_samples |-> n - attack_samples - decay_samples - release_samples,
         first_sustain |-> n - a0 - d0 - r0]

\* the envelope of adsr_envelope for n samples, from its phase boundaries:
\* the slice assignments of the four phases, in order, on an array of zeros
AdsrSegments(n, attack_samples, decay_samples, sustain_samples, release_samples,
             sustain) ==
    LET idx1 == IF attack_samples > 0 THEN attack_samples ELSE 0
        idx2 == IF decay_samples > 0 THEN idx1 + decay_samples ELSE idx1
        idx3 == IF sustain_samples > 0 THEN idx2 + sustain_samples ELSE idx2
        held == Min(idx2 + sustain_samples, n) - Min(idx2, n)
        segs == (IF attack_samples > 0
                 THEN << <<0, LinspaceTo(RZero, ROne, attack_samples)>> >> ELSE <<>>)
             \o (IF decay_samples > 0
                 THEN << <<idx1, LinspaceTo(ROne, sustain, decay_samples)>> >> ELSE <<>>)
             \o (IF sustain_samples > 0 /\ held > 0
                 THEN << <<idx2, [i \in 1..held |-> sustain]>> >> ELSE <<>>)
             \o (IF release_samples > 0
                 THEN << <<idx3, LinspaceTo(sustain, RZero, release_samples)>> >> ELSE <<>>)
    IN  SetSlices(Zeros(n), segs)

\* the envelope of adsr_envelope for n samples
AdsrCurve(n, attack, decay, sustain, release) ==
    LET counts == AdsrCounts(n, attack, decay, release)
    IN  AdsrSegments(n, counts.attack_samples, counts.decay_samples,
                     counts.sustain_samples, counts.release_samples, sustain)

adsr_envelope(h, samples, attack, decay, sustain, release, sustain_level) ==
    LET level == IF sustain_level # None THEN sustain_level ELSE sustain
        envelope == AdsrCurve(Len(h[samples]), attack, decay, level, release)
        h1 == Alloc(h, "envelope", Zeros(Len(h[samples])))
    IN  IF envelope.err # "none" THEN Raises(h1, envelope.err)
        ELSE New(Alloc(h, "envelope", envelope.val), "shaped",
                 Times(h[samples], envelope.val))

\* np.exp(y): 1 + y + y^2/2 for y >= 0 and its reciprocal at -y for y < 0;
\* positive, increasing and 1 at 0 like exp
Exp(y) ==
    LET z == RAbs(y)
        e == RAdd(RAdd(ROne, z), RDiv(RMul(z, z), RInt(2)))
    IN  IF y[1] >= 0 THEN e ELSE RDiv(ROne, e)

\* arr[lo:] = vals for any lo (a negative lo counts from the end), with the
\* same rule on lengths
SetTail(arr, lo, vals) ==
    LET n == Len(arr)
        first == IF lo >= 0 THEN Min(lo, n) ELSE Max(n + lo, 0)
    IN  IF Len(vals) # 1 /\ Len(vals) # n - first THEN Raise("ValueError")
        ELSE Ok([i \in 1..n |-> IF i <= first THEN arr[i]
                                ELSE IF Len(vals) = 1 THEN vals[1]
                                ELSE vals[i - first]])

percussive_envelope(h, samples, attack, decay) ==
    LET n == Len(h[samples])
        attack_samples == Trunc(RMul(RInt(n), attack))
        decay_samples == n - attack_samples
        t == LinspaceTo(RZero, decay, decay_samples)
        rise == IF attack_samples > 0
                THEN SetSlice(Zeros(n), 0, LinspaceTo(RZero, ROne, attack_samples))
                ELSE Ok(Zeros(n))
        envelope == IF rise.err = "none" /\ decay_samples > 0
                    THEN SetTail(rise.val, attack_samples,
                                 [i \in 1..decay_samples |->
                                     Exp(RNeg(RMul(t[i], RInt(5))))])
                    ELSE rise
    IN  IF envelope.err # "none" THEN Raises(Alloc(h, "envelope", Zeros(n)), envelope.err)
        ELSE New(Alloc(h, "envelope", envelope.val), "shaped",
                 Times(h[samples], envelope.val))

swell_envelope(h, samples, attack_time) ==
    LET n == Len(h[samples])
        attack_samples == Trunc(RMul(RInt(n), attack_time))
        ones == [i \in 1..n |-> ROne]
        t == LinspaceTo(RZero, Rat(1, 4), attack_samples)     \* in turns
        envelope == IF attack_samples > 0
                    THEN SetSlice(ones, 0, [i \in 1..attack_samples |-> SinTurns(t[i])])
                    ELSE Ok(ones)
    IN  IF envelope.err # "none" THEN Raises(Alloc(h, "envelope", ones), envelope.err)
        ELSE New(Alloc(h, "envelope", envelope.val), "shaped",
                 Times(h[samples], envelope.val))

\* wobble_envelope mapping the LFO to [1 - 2 depth, 1]: without the halving
wobble_envelope_full_swing(h, samples, rate, depth) ==
    LET n == Len(h[samples])
        t == [i \in 1..n |-> Rat(2 * (i - 1), n)]
        lfo == [i \in 1..n |-> SinTurns(RMul(rate, t[i]))]
        modulation == [i \in 1..n |-> RSub(ROne, RMul(depth, RSub(ROne, lfo[i])))]
    IN  New(Alloc(h, "modulation", modulation), "shaped",
            Times(h[samples], modulation))

\* wobble_envelope(samples, rate, depth): sample_rate = n / 2.0, so sample i
\* is at t = 2i/n; an empty array gives an empty result
wobble_envelope(h, samples, rate, depth) ==
    LET n == Len(h[samples])
        t == [i \in 1..n |-> Rat(2 * (i - 1), n)]
        lfo == [i \in 1..n |-> SinTurns(RMul(rate, t[i]))]
        modulation == [i \in 1..n |->
                          RSub(ROne, RDiv(RMul(depth, RSub(ROne, lfo[i])), RInt(2)))]
    IN  New(Alloc(h, "modulation", modulation), "shaped",
            Times(h[samples], modulation))

\* ------------------------------------------------------------------- fades
\* fade_in without `duration_samples = min(duration_samples, n)`
fade_in_unclamped(h, samples, duration_samples) ==
    LET n == Len(h[samples])
        d == duration_samples
        ones == [i \in 1..n |-> ROne]
        fade_curve == SetSlice(ones, 0, LinspaceTo(RZero, ROne, d))
    IN  IF d <= 0 THEN Returned(h, samples)
        ELSE IF fade_curve.err # "none"
        THEN Raises(Alloc(h, "fade_curve", ones), fade_curve.err)
        ELSE New(Alloc(h, "fade_curve", fade_curve.val), "faded",
                 Times(h[samples], fade_curve.val))

fade_in(h, samples, duration_samples) ==
    LET n == Len(h[samples])
        d == Min(duration_samples, n)
        ones == [i \in 1..n |-> ROne]
        fade_curve == SetSlice(ones, 0, LinspaceTo(RZero, ROne, d))
    IN  IF d <= 0 THEN Returned(h, samples)
        ELSE New(Alloc(h, "fade_curve", fade_curve.val), "faded",
                 Times(h[samples], fade_curve.val))

fade_out(h, samples, duration_samples) ==
    LET n == Len(h[samples])
        d == Min(duration_samples, n)
        ones == [i \in 1..n |-> ROne]
        fade_curve == SetSlice(ones, n - d, LinspaceTo(ROne, RZero, d))
    IN  IF d <= 0 THEN Returned(h, samples)
        ELSE New(Alloc(h, "fade_curve", fade_curve.val), "faded",
                 Times(h[samples], fade_curve.val))

\* ------------------------------ mixer, bitcrush and exporter on the heap
\* the names of the arrays np.pad makes for the layers it pads
PaddedNames == <<"padded1", "padded2">>

RECURSIVE Accumulate(_, _, _, _)
\* `for layer, weight in zip(padded_layers, weights): mixed += layer * weight`
\* from the k-th pair on: each round adds to the array mixed in place
Accumulate(h, padded_layers, weights, k) ==
    IF k > Len(padded_layers) \/ k > Len(weights) THEN h
    ELSE Accumulate(
             Alloc(h, "mixed",
                   [i \in 1..Len(h["mixed"]) |->
                       RAdd(h["mixed"][i], RMul(h[padded_layers[k]][i], weights[k]))]),
             padded_layers, weights, k + 1)

\* mix_layers(layer_list, weights) on arrays of the heap, layer_list naming
\* the layers.  A layer of full length goes into padded_layers as it is (the
\* caller's array), a shorter one as the new array np.pad returns; the
\* weighted sum is accumulated in a new array of zeros, which the clipping
\* guard replaces by its quotient when the peak exceeds 1.
mix_layers_on_heap(h, layer_list, weights) ==
    LET n == Len(layer_list)
        max_len == MaxLenOf([k \in 1..n |-> h[layer_list[k]]])
        short == {k \in 1..n : Len(h[layer_list[k]]) < max_len}
        padded_layers == [k \in 1..n |-> IF k \in short THEN PaddedNames[k]
                                         ELSE layer_list[k]]
        h1 == [x \in DOMAIN h \cup {PaddedNames[k] : k \in short} |->
                  IF \E k \in short : x = PaddedNames[k]
                  THEN Array(Pad(h[layer_list[CHOOSE k \in short : x = PaddedNames[k]]],
                                 max_len))
                  ELSE h[x]]
        ws == IF weights = None THEN [k \in 1..n |-> Rat(1, n)] ELSE weights.items
        h2 == Alloc(h1, "mixed", Zeros(max_len))
        h3 == Accumulate(h2, padded_layers, ws, 1)
        out == PreventClipping(h3["mixed"])
    IN  IF n = 0 THEN New(h, "empty", <<>>)
        ELSE IF weights # None /\ Len(weights.items) # n THEN Raises(h1, "ValueError")
        ELSE IF out.err # "none" THEN Raises(h3, out.err)
        ELSE IF out.val = h3["mixed"] THEN Returned(h3, "mixed")
        ELSE New(h3, "scaled", out.val)

\* normalize returns its argument itself when it is empty or silent
normalize_on_heap(h, samples, target_db) ==
    IF Len(h[samples]) = 0 THEN Returned(h, samples)
    ELSE IF MaxAbs(h[samples]) = RZero THEN Returned(h, samples)
    ELSE New(h, "scaled", normalize(h[samples], target_db))

\* np.round, the division and np.clip each make a new array
bitcrush_on_heap(h, samples, bits) ==
    New(h, "clipped", bitcrush(h[samples], bits))

\* the arrays of export_wav: np.clip gives a new array, to which the local
\* name samples is bound from then on, and astype another
export_wav_arrays(h, samples) ==
    IF Len(h[samples]) = 0 THEN h
    ELSE Alloc(Alloc(h, "clipped",
                     [i \in 1..Len(h[samples]) |-> Clip(h[samples][i], RInt(-1), ROne)]),
               "samples_int16", ToPcm16(h[samples]))

\* ------------------------------------ calls of core operations (SpecCore)
\* One call per behaviour: call is drawn in the initial state, with the heap
\* the caller has then, and the action of its operation sets ret.
CoreVals == {<<0, 1>>, <<1, 2>>, <<-1, 1>>}
CoreBuffers == SeqsUpTo(CoreVals, MaxLen)
\* a buffer just long enough for signal.filtfilt
LongBuffer == [i \in 1..(padlen + 1) |-> Rat((i % 3) - 1, 2)]
\* the heap of a caller that holds one array
OneArray(x) == [samples |-> x]
\* the heap of a caller that holds two
TwoArrays == {[a |-> x, b |-> y] :
                 x \in {<<>>, << <<-3, 2>>, <<1, 2>> >>}, y \in {<<>>, << <<1, 1>> >>}}
\* (attack, decay, sustain, release) of adsr_envelope: the defaults, phases
\* that fill the buffer, phases that overflow it, and none
AdsrArgs ==
    {<< <<1, 100>>, <<1, 10>>, <<7, 10>>, <<1, 5>> >>,
     << <<1, 2>>, <<0, 1>>, <<7, 10>>, <<1, 2>> >>,
     << <<1, 1>>, <<1, 1>>, <<1, 2>>, <<1, 1>> >>,
     << <<0, 1>>, <<0, 1>>, <<1, 1>>, <<0, 1>> >>}

FilterCalls ==
    {[op |-> f, heap |-> OneArray(x), samples |-> "samples", cutoff |-> c,
      sample_rate |-> 22050] :
        f \in {"lowpass_filter", "highpass_filter"},
        x \in CoreBuffers \cup {LongBuffer}, c \in {<<1000, 1>>, <<20000, 1>>}}
    \cup
    {[op |-> "resonant_filter", heap |-> OneArray(x), samples |-> "samples",
      cutoff |-> <<1500, 1>>, resonance |-> r, sample_rate |-> 22050] :
        x \in CoreBuffers \cup {LongBuffer},
        r \in {<<-1, 1>>, <<1, 2>>, <<2, 1>>, <<27, 10>>, <<3, 1>>, <<21, 1>>}}

EffectCalls ==
    {[op |-> "bitcrush", heap |-> OneArray(x), samples |-> "samples", bits |-> b] :
        x \in CoreBuffers, b \in {1, 5}}
    \cup
    {[op |-> "simple_reverb", heap |-> OneArray(x), samples |-> "samples",
      delay |-> d, decay |-> k] :
        x \in CoreBuffers,
        d \in {<<-1, 1>>, <<0, 1>>, <<1, 22050>>, <<1, 11025>>, <<1, 20>>},
        k \in {<<0, 1>>, <<10, 1>>}}
    \cup
    {[op |-> "pitch_bend", heap |-> OneArray(x), samples |-> "samples",
      start_pitch |-> a, end_pitch |-> b] :
        x \in CoreBuffers, a \in {<<1, 1>>, <<3, 2>>}, b \in {<<1, 2>>, <<2, 1>>}}
    \cup
    {[op |-> "pitch_sweep", heap |-> OneArray(x), samples |-> "samples",
      start_freq |-> a, end_freq |-> b, duration |-> <<1, 2>>,
      sample_rate |-> 22050] :
        x \in CoreBuffers, a \in {<<0, 1>>, <<440, 1>>}, b \in {<<220, 1>>, <<880, 1>>}}
    \cup
    {[op |-> "distortion", heap |-> OneArray(x), samples |-> "samples",
      drive |-> d, amount |-> a] :
        x \in CoreBuffers, d \in {<<2, 1>>, <<1, 2>>}, a \in {None, <<4, 1>>}}
    \cup
    {[op |-> "ring_modulate", heap |-> OneArray(x), samples |-> "samples",
      mod_freq |-> f, sample_rate |-> 22050] :
        x \in CoreBuffers, f \in {<<3675, 2>>, <<11025, 2>>}}
    \cup
    {[op |-> "phaser", heap |-> OneArray(x), samples |-> "samples",
      rate |-> r, depth |-> d, sample_rate |-> sr] :
        x \in CoreBuffers, r \in {<<0, 1>>, <<3675, 2>>}, d \in {<<1, 1>>, <<1, 2>>},
        sr \in {22050, 1100}}

EnvelopeCalls ==
    {[op |-> "adsr_envelope", heap |-> OneArray(x), samples |-> "samples",
      attack |-> p[1], decay |-> p[2], sustain |-> p[3], release |-> p[4],
      sustain_level |-> sl] :
        x \in CoreBuffers, p \in AdsrArgs, sl \in {None, <<1, 2>>}}
    \cup
    {[op |-> "percussive_envelope", heap |-> OneArray(x), samples |-> "samples",
      attack |-> a, decay |-> d] :
        x \in CoreBuffers, a \in {<<0, 1>>, <<1, 2>>, <<1, 1>>},
        d \in {<<3, 10>>, <<1, 1>>}}
    \cup
    {[op |-> "swell_envelope", heap |-> OneArray(x), samples |-> "samples",
      attack_time |-> a] :
        x \in CoreBuffers, a \in {<<0, 1>>, <<1, 2>>, <<1, 1>>}}
    \cup
    {[op |-> "wobble_envelope", heap |-> OneArray(x), samples |-> "samples",
      rate |-> r, depth |-> d] :
        x \in CoreBuffers, r \in {<<5, 1>>, <<1, 4>>}, d \in {<<1, 2>>, <<1, 1>>}}

MixerCalls ==
    {[op |-> f, heap |-> OneArray(x), samples |-> "samples", duration_samples |-> d] :
        f \in {"fade_in", "fade_out"}, x \in CoreBuffers, d \in {-1, 0, 1, 2, 5}}
    \cup
    {[op |-> "mix_layers", heap |-> h, layer_list |-> ls, weights |-> w] :
        h \in TwoArrays,
        ls \in {<<>>, <<"a">>, <<"a", "b">>, <<"b", "a">>, <<"a", "a">>},
        w \in {None, [kind |-> "list", items |-> << <<1, 2>>, <<1, 2>> >>],
               [kind |-> "list", items |-> << <<2, 1>> >>]}}
    \cup
    {[op |-> "normalize", heap |-> OneArray(x), samples |-> "samples",
      target_db |-> db] :
        x \in CoreBuffers, db \in {-20, 0}}
    \cup
    {[op |-> "export_wav", heap |-> OneArray(x), samples |-> "samples",
      filename |-> <<"a">>, sample_rate |-> 22050] :
        x \in CoreBuffers}

CoreCalls == FilterCalls \cup EffectCalls \cup EnvelopeCalls \cup MixerCalls

CallLowpassFilter ==
    /\ call.op = "lowpass_filter" /\ "heap" \in DOMAIN call /\ ret = Pending
    /\ ret' = lowpass_filter(call.heap, call.samples, call.cutoff, call.sample_rate)
    /\ UNCHANGED <<call, dirs, files>>

CallHighpassFilter ==
    /\ call.op = "highpass_filter" /\ "heap" \in DOMAIN call /\ ret = Pending
    /\ ret' = highpass_filter(call.heap, call.samples, call.cutoff, call.sample_rate)
    /\ UNCHANGED <<call, dirs, files>>

CallResonantFilter ==
    /\ call.op = "resonant_filter" /\ "heap" \in DOMAIN call /\ ret = Pending
    /\ ret' = resonant_filter(call.heap, call.samples, call.cutoff, call.resonance,
                           call.sample_rate)
    /\ UNCHANGED <<call, dirs, files>>

CallSimpleReverb ==
    /\ call.op = "simple_reverb" /\ "heap" \in DOMAIN call /\ ret = Pending
    /\ ret' = simple_reverb(call.heap, call.samples, call.delay, call.decay)
    /\ UNCHANGED <<call, dirs, files>>

CallPitchBend ==
    /\ call.op = "pitch_bend" /\ "heap" \in DOMAIN call /\ ret = Pending
    /\ ret' = pitch_bend(call.heap, call.samples, call.start_pitch, call.end_pitch)
    /\ UNCHANGED <<call, dirs, files>>

CallPitchSweep ==
    /\ call.op = "pitch_sweep" /\ "heap" \in DOMAIN call /\ ret = Pending
    /\ ret' = pitch_sweep(call.heap, call.samples, call.start_freq, call.end_freq,
                       call.duration, call.sample_rate)
    /\ UNCHANGED <<call, dirs, files>>

CallDistortion ==
    /\ call.op = "distortion" /\ "heap" \in DOMAIN call /\ ret = Pending
    /\ ret' = distortion(call.heap, call.samples, call.drive, call.amount)
    /\ UNCHANGED <<call, dirs, files>>

CallRingModulate ==
    /\ call.op = "ring_modulate" /\ "heap" \in DOMAIN call /\ ret = Pending
    /\ ret' = ring_modulate(call.heap, call.samples, call.mod_freq, call.sample_rate)
    /\ UNCHANGED <<call, dirs, files>>

CallPhaser ==
    /\ call.op = "phaser" /\ "heap" \in DOMAIN call /\ ret = Pending
    /\ ret' = phaser(call.heap, call.samples, call.rate, call.depth, call.sample_rate)
    /\ UNCHANGED <<call, dirs, files>>

CallBitcrushOnHeap ==
    /\ call.op = "bitcrush" /\ "heap" \in DOMAIN call /\ ret = Pending
    /\ ret' = bitcrush_on_heap(call.heap, call.samples, call.bits)
    /\ UNCHANGED <<call, dirs, files>>

CallAdsrEnvelope ==
    /\ call.op = "adsr_envelope" /\ "heap" \in DOMAIN call /\ ret = Pending
    /\ ret' = adsr_envelope(call.heap, call.samples, call.attack, call.decay,
                         call.sustain, call.release, call.sustain_level)
    /\ UNCHANGED <<call, dirs, files>>

CallPercussiveEnvelope ==
    /\ call.op = "percussive_envelope" /\ "heap" \in DOMAIN call /\ ret = Pending
    /\ ret' = percussive_envelope(call.heap, call.samples, call.attack, call.decay)
    /\ UNCHANGED <<call, dirs, files>>

CallSwellEnvelope ==
    /\ call.op = "swell_envelope" /\ "heap" \in DOMAIN call /\ ret = Pending
    /\ ret' = swell_envelope(call.heap, call.samples, call.attack_time)
    /\ UNCHANGED <<call, dirs, files>>

CallWobbleEnvelope ==
    /\ call.op = "wobble_envelope" /\ "heap" \in DOMAIN call /\ ret = Pending
    /\ ret' = wobble_envelope(call.heap, call.samples, call.rate, call.depth)
    /\ UNCHANGED <<call, dirs, files>>

CallFadeIn ==
    /\ call.op = "fade_in" /\ "heap" \in DOMAIN call /\ ret = Pending
    /\ ret' = fade_in(call.heap, call.samples, call.duration_samples)
    /\ UNCHANGED <<call, dirs, files>>

CallFadeOut ==
    /\ call.op = "fade_out" /\ "heap" \in DOMAIN call /\ ret = Pending
    /\ ret' = fade_out(call.heap, call.samples, call.duration_samples)
    /\ UNCHANGED <<call, dirs, files>>

CallMixLayersOnHeap ==
    /\ call.op = "mix_layers" /\ "heap" \in DOMAIN call /\ ret = Pending
    /\ ret' = mix_layers_on_heap(call.heap, call.layer_list, call.weights)
    /\ UNCHANGED <<call, dirs, files>>

CallNormalizeOnHeap ==
    /\ call.op = "normalize" /\ "heap" \in DOMAIN call /\ ret = Pending
    /\ ret' = normalize_on_heap(call.heap, call.samples, call.target_db)
    /\ UNCHANGED <<call, dirs, files>>

\* export_wav on an array of the heap: the file system as export_wav leaves
\* it, and the heap with the arrays the conversion made
CallExportWavOnHeap ==
    /\ call.op = "export_wav" /\ "heap" \in DOMAIN call /\ ret = Pending
    /\ LET out == export_wav(call.heap[call.samples], call.filename, call.sample_rate,
                             dirs, files)
       IN  /\ ret' = [err |-> out.ret.err, val |-> out.ret.val, ref |-> None,
                      heap |-> export_wav_arrays(call.heap, call.samples)]
           /\ dirs' = out.dirs
           /\ files' = out.files
    /\ UNCHANGED call

InitCore ==
    /\ call \in CoreCalls
    /\ ret = Pending
    /\ dirs = {<<>>}
    /\ files = <<>>

NextCore ==
    \/ CallLowpassFilter
    \/ CallHighpassFilter
    \/ CallResonantFilter
    \/ CallSimpleReverb
    \/ CallPitchBend
    \/ CallPitchSweep
    \/ CallDistortion
    \/ CallRingModulate
    \/ CallPhaser
    \/ CallBitcrushOnHeap
    \/ CallAdsrEnvelope
    \/ CallPercussiveEnvelope
    \/ CallSwellEnvelope
    \/ CallWobbleEnvelope
    \/ CallFadeIn
    \/ CallFadeOut
    \/ CallMixLayersOnHeap
    \/ CallNormalizeOnHeap
    \/ CallExportWavOnHeap

SpecCore == InitCore /\ [][NextCore]_vars

\* ---------------------------------------------------------- simple_reverb
\* the delay converted to samples, as simple_reverb computes it
DelaySamples(c) == Trunc(RMul(c.delay, RInt(22050)))

\* C17: simple_reverb returns the input array itself, with the contents it
\* had, whenever the delay in samples is <= 0 or >= the buffer length (an
\* empty buffer included), and in every case the result is as long as the
\* input.
C17_ReverbGuardAndLength ==
    (call.op = "simple_reverb" /\ ret.err # "pending") =>
        /\ ret.err = "none"
        /\ Len(ret.val) = Len(call.heap[call.samples])
        /\ (DelaySamples(call) <= 0
                \/ DelaySamples(call) >= Len(call.heap[call.samples])) =>
              /\ ret.ref = call.samples
              /\ ret.val = call.heap[call.samples]
              /\ ret.heap = call.heap

\* the guard taken because the delay (2 samples) is as long as the buffer
C17_Witness ==
    /\ call.op = "simple_reverb"
    /\ call.heap[call.samples] = << <<1, 2>>, <<-1, 1>> >>
    /\ call.delay = <<1, 11025>>
    /\ ret.err = "none"
    /\ ret.ref = "samples"
    /\ ret.val = << <<1, 2>>, <<-1, 1>> >>

\* the echo path: the delay is shorter than the buffer, and the result is the
\* first len(samples) samples of the new array
C17_EchoPath ==
    /\ call.op = "simple_reverb"
    /\ call.heap[call.samples] = << <<1, 2>>, <<-1, 1>> >>
    /\ call.delay = <<1, 22050>>
    /\ call.decay = <<10, 1>>
    /\ ret.err = "none"
    /\ ret.ref = "output"
    /\ ret.val = << <<1, 2>>, <<15, 2>> >>

\* -------------------------------------------------------- resonant_filter
\* the number of filter passes a result went through: samples that come out
\* of filtfilt carry it, samples of the unfiltered copy are plain rationals
Passes(v) ==
    IF Len(v) = 0 THEN 0
    ELSE IF DOMAIN v[1] = 1..2 THEN 0
    ELSE v[1].passes

\* C18: a resonant_filter call that returns has applied the lowpass exactly
\* round(r) times, r being the resonance clamped into [0.5, 20.0]; so never
\* more than 20 passes, and 3 passes for a resonance of 2.7.
C18_PassesRoundOfClamped ==
    (call.op = "resonant_filter" /\ ret.err = "none") =>
        /\ Passes(ret.val) = RoundHalfEven(Clip(call.resonance, Rat(1, 2), RInt(20)))
        /\ Passes(ret.val) <= 20

\* what the loop does instead: int(resonance) passes, none when that is
\* negative, and no upper limit
C18_PassesIntOfResonance ==
    (call.op = "resonant_filter" /\ ret.err = "none") =>
        Passes(ret.val) = IF Trunc(call.resonance) > 0 THEN Trunc(call.resonance) ELSE 0

\* ------------------------------------------- effects on short buffers
EffectOps ==
    {"bitcrush", "lowpass_filter", "highpass_filter", "resonant_filter",
     "simple_reverb", "pitch_bend", "pitch_sweep", "distortion",
     "ring_modulate", "phaser"}

\* C19: no effect raises, whatever the length of the buffer it is given, and
\* an effect given an empty buffer returns an empty result.
C19_EffectsNeverRaise ==
    (call.op \in EffectOps /\ ret.err # "pending") =>
        /\ ret.err = "none"
        /\ Len(call.heap[call.samples]) = 0 => Len(ret.val) = 0

\* the calls that raise: a filter that runs filtfilt on a buffer of at most
\* padlen samples, and on an empty buffer the effects that take np.max of it
\* or interpolate in it; all of them raise ValueError
C19_RaisingCalls ==
    (call.op \in EffectOps /\ ret.err # "pending") =>
        LET n == Len(call.heap[call.samples])
            raising ==
                \/ call.op \in {"lowpass_filter", "highpass_filter"} /\ n <= padlen
                \/ call.op = "resonant_filter" /\ n <= padlen
                       /\ Trunc(call.resonance) >= 1
                \/ call.op \in {"pitch_bend", "pitch_sweep", "distortion", "phaser"}
                       /\ n = 0
        IN  /\ raising => ret.err = "ValueError"
            /\ ~raising => ret.err = "none"

\* ------------------------------------------------ input buffers are kept
\* C20: after a call of a core operation (an envelope, an effect, mix_layers,
\* normalize, fade_in, fade_out, export_wav), whether it returned or raised,
\* every array the caller had before the call holds exactly the samples it
\* held before.
C20_InputsNotMutated ==
    ret.err # "pending" =>
        /\ DOMAIN call.heap \subseteq DOMAIN ret.heap
        /\ \A b \in DOMAIN call.heap : ret.heap[b] = call.heap[b]

\* simple_reverb has stored its echoes, in the array it made: the result
\* differs from the input, which is as it was
C20_Witness ==
    /\ call.op = "simple_reverb"
    /\ call.heap = [samples |-> << <<1, 2>>, <<-1, 1>> >>]
    /\ call.delay = <<1, 22050>>
    /\ call.decay = <<10, 1>>
    /\ ret.err = "none"
    /\ ret.val = << <<1, 2>>, <<15, 2>> >>
    /\ Len(ret.heap["output"]) = 5
    /\ ret.heap["samples"] = << <<1, 2>>, <<-1, 1>> >>

\* mix_layers has accumulated two layers in place, in the array mixed
C20_MixWitness ==
    /\ call.op = "mix_layers"
    /\ Len(call.layer_list) = 2
    /\ ret.err = "none"
    /\ "mixed" \in DOMAIN ret.heap
    /\ \E b \in DOMAIN call.heap : ret.heap["mixed"] # call.heap[b]
    /\ \A b \in DOMAIN call.heap : ret.heap[b] = call.heap[b]

\* ------------------------------------- the caller writes into the result
\* After a transform has returned, the caller stores a value in the first
\* sample of the returned array (`result[0] = 2.0`): the store changes the
\* array object the result refers to, whoever else refers to it.
WrittenValue == <<2, 1>>

WriteIntoResult ==
    /\ call.op # "export_wav" /\ "heap" \in DOMAIN call
    /\ ret.err = "none" /\ "written" \notin DOMAIN ret
    /\ Len(ret.heap[ret.ref]) > 0
    /\ ret' = [err |-> ret.err, val |-> ret.val, ref |-> ret.ref,
               heap |-> [ret.heap EXCEPT ![ret.ref][1] = WrittenValue],
               written |-> TRUE]
    /\ UNCHANGED <<call, dirs, files>>

NextOwn == NextCore \/ WriteIntoResult

SpecOwn == InitCore /\ [][NextOwn]_vars

\* C21: a transform's result shares no storage with its input, so after the
\* caller has written into the returned buffer every array it passed to the
\* transform holds what it held before the call.
C21_ResultSharesNoStorage ==
    (ret.err = "none" /\ "written" \in DOMAIN ret) =>
        \A b \in DOMAIN call.heap : ret.heap[b] = call.heap[b]

\* the transforms that return a new array object on every path
NewArrayOps ==
    {"bitcrush", "lowpass_filter", "highpass_filter", "resonant_filter",
     "pitch_bend", "pitch_sweep", "distortion", "ring_modulate", "phaser",
     "adsr_envelope", "percussive_envelope", "swell_envelope",
     "wobble_envelope", "mix_layers"}

\* which results are the caller's own array: normalize of an empty or silent
\* buffer, a fade of non-positive (clamped) duration, simple_reverb under its
\* guard; every other result is a new array
C21_AliasedResults ==
    (call.op # "export_wav" /\ "heap" \in DOMAIN call /\ ret.err = "none") =>
        LET aliased == ret.ref \in DOMAIN call.heap
            x == IF "samples" \in DOMAIN call THEN call.heap[call.samples] ELSE <<>>
        IN  /\ call.op \in NewArrayOps => ~aliased
            /\ call.op = "normalize" => (aliased <=> (Len(x) = 0 \/ MaxAbs(x) = RZero))
            /\ call.op \in {"fade_in", "fade_out"} =>
                  (aliased <=> Min(call.duration_samples, Len(x)) <= 0)
            /\ call.op = "simple_reverb" =>
                  (aliased <=> (DelaySamples(call) <= 0 \/ DelaySamples(call) >= Len(x)))

\* ------------------------------------------ calls of the envelopes (SpecEnv)
\* envelopes are given buffers of 0 to MaxEnvLen samples
MaxEnvLen == 5

\* phase fractions and levels within [0, 1]
Fractions == {<<0, 1>>, <<1, 4>>, <<1, 2>>, <<3, 4>>, <<1, 1>>}

\* a buffer of n samples, none of them zero
EnvBuffer(n) == [i \in 1..n |-> IF i % 2 = 1 THEN <<1, 1>> ELSE <<-1, 2>>]

EnvBuffers == {EnvBuffer(n) : n \in 0..MaxEnvLen}

EnvCalls ==
    {[op |-> "adsr_envelope", heap |-> OneArray(x), samples |-> "samples",
      attack |-> a, decay |-> d, sustain |-> s, release |-> r,
      sustain_level |-> sl] :
        x \in EnvBuffers, a \in Fractions, d \in Fractions, r \in Fractions,
        s \in {<<0, 1>>, <<7, 10>>, <<1, 1>>}, sl \in {None, <<1, 2>>}}
    \cup
    {[op |-> "percussive_envelope", heap |-> OneArray(x), samples |-> "samples",
      attack |-> a, decay |-> d] :
        x \in EnvBuffers, a \in Fractions,
        d \in {<<0, 1>>, <<3, 10>>, <<1, 1>>, <<2, 1>>}}
    \cup
    {[op |-> "swell_envelope", heap |-> OneArray(x), samples |-> "samples",
      attack_time |-> a] :
        x \in EnvBuffers, a \in Fractions}
    \cup
    {[op |-> "wobble_envelope", heap |-> OneArray(x), samples |-> "samples",
      rate |-> r, depth |-> d] :
        x \in EnvBuffers, r \in {<<0, 1>>, <<1, 4>>, <<3, 1>>, <<5, 1>>},
        d \in Fractions}

InitEnv ==
    /\ call \in EnvCalls
    /\ ret = Pending
    /\ dirs = {<<>>}
    /\ files = <<>>

NextEnv ==
    \/ CallAdsrEnvelope
    \/ CallPercussiveEnvelope
    \/ CallSwellEnvelope
    \/ CallWobbleEnvelope

SpecEnv == InitEnv /\ [][NextEnv]_vars

\* C22: every envelope returns, raising nothing, a buffer exactly as long as
\* its input, for every buffer length from 0 and all fractions in [0, 1], the
\* ADSR fractions whose sum is at least 1 included.
C22_EnvelopesPreserveLength ==
    ret.err # "pending" =>
        /\ ret.err = "none"
        /\ Len(ret.val) = Len(call.heap[call.samples])

\* adsr_envelope has rescaled its phases (the fractions sum to 9/4) on a
\* buffer of 5 samples
C22_Witness ==
    /\ call.op = "adsr_envelope"
    /\ Len(call.heap[call.samples]) = 5
    /\ call.attack = <<3, 4>> /\ call.decay = <<3, 4>> /\ call.release = <<3, 4>>
    /\ ret.err = "none"
    /\ Len(ret.val) = 5

\* wobble_envelope on the empty buffer, where its sample_rate is 0.0
C22_ShortWitness ==
    /\ call.op = "wobble_envelope"
    /\ Len(call.heap[call.samples]) = 0
    /\ ret.err = "none"
    /\ ret.val = <<>>

\* ---------------------------------------------- calls of the fades (SpecFade)
FadeCalls ==
    {[op |-> f, heap |-> OneArray(x), samples |-> "samples", duration_samples |-> d] :
        f \in {"fade_in", "fade_out"}, x \in EnvBuffers \cup CoreBuffers,
        d \in -2..(MaxEnvLen + 2)}

InitFade ==
    /\ call \in FadeCalls
    /\ ret = Pending
    /\ dirs = {<<>>}
    /\ files = <<>>

NextFade == CallFadeIn \/ CallFadeOut

SpecFade == InitFade /\ [][NextFade]_vars

\* the k-th of d values of a linear ramp from 0 to 1
Ramp(k, d) == IF d = 1 THEN RZero ELSE Rat(k - 1, d - 1)

\* C23: fade_in and fade_out raise nothing and keep the length, for every
\* buffer and every integer duration_samples; with d = min(duration_samples,
\* length), d <= 0 gives the samples back unchanged, and otherwise the first
\* (fade_in) or last (fade_out) d samples are multiplied by the ramp and all
\* the others are unchanged.
C23_FadesClampAndPreserve ==
    (call.op \in {"fade_in", "fade_out"} /\ ret.err # "pending") =>
        LET x == call.heap[call.samples]
            n == Len(x)
            d == Min(call.duration_samples, n)
        IN  /\ ret.err = "none"
            /\ Len(ret.val) = n
            /\ d <= 0 => ret.val = x
            /\ (d > 0 /\ call.op = "fade_in") =>
                  \A i \in 1..n :
                      ret.val[i] = IF i <= d THEN RMul(x[i], Ramp(i, d)) ELSE x[i]
            /\ (d > 0 /\ call.op = "fade_out") =>
                  \A i \in 1..n :
                      ret.val[i] = IF i > n - d
                                   THEN RMul(x[i], RSub(ROne, Ramp(i - (n - d), d)))
                                   ELSE x[i]

\* fade_in given a duration longer than the buffer: the ramp covers the
\* whole buffer
C23_Witness ==
    /\ call.op = "fade_in"
    /\ call.heap[call.samples] = EnvBuffer(3)
    /\ call.duration_samples = 5
    /\ ret.err = "none"
    /\ ret.val = << <<0, 1>>, <<-1, 4>>, <<1, 1>> >>

\* fade_out over the last two of four samples
C23_FadeOutWitness ==
    /\ call.op = "fade_out"
    /\ call.heap[call.samples] = EnvBuffer(4)
    /\ call.duration_samples = 2
    /\ ret.err = "none"
    /\ ret.val = << <<1, 1>>, <<-1, 2>>, <<1, 1>>, <<0, 1>> >>

\* ------------------------------------------------- pipelines (SpecPipe)
\* A generator makes a buffer with an oscillator, rebinds it to the result of
\* one transform after the other (`base = effects.pitch_bend(base, ...)`) and
\* exports it.  A pipeline applies at most MaxSteps transforms.
MaxSteps == 2

PipeOps ==
    {"adsr_envelope", "percussive_envelope", "swell_envelope", "wobble_envelope",
     "bitcrush", "distortion", "ring_modulate", "pitch_bend", "simple_reverb",
     "phaser", "normalize", "fade_in", "fade_out"}

\* the oscillator buffers a pipeline starts from: those of n > 0 samples
PipeStarts ==
    {x \in {square_wave(<<3, 4>>, d, r).val : d \in Durations, r \in Rates}
            \cup {triangle_wave(<<3, 4>>, d, r).val : d \in Durations, r \in Rates} :
        Len(x) > 0}

\* the calls a pipeline may make on the buffer x
PipeCalls(x) ==
    {[op |-> "adsr_envelope", heap |-> OneArray(x), samples |-> "samples",
      attack |-> <<1, 2>>, decay |-> <<1, 2>>, sustain |-> <<1, 2>>,
      release |-> <<1, 2>>, sustain_level |-> None],
     [op |-> "percussive_envelope", heap |-> OneArray(x), samples |-> "samples",
      attack |-> <<1, 2>>, decay |-> <<0, 1>>],
     [op |-> "swell_envelope", heap |-> OneArray(x), samples |-> "samples",
      attack_time |-> <<1, 2>>],
     [op |-> "wobble_envelope", heap |-> OneArray(x), samples |-> "samples",
      rate |-> <<0, 1>>, depth |-> <<1, 2>>],
     [op |-> "bitcrush", heap |-> OneArray(x), samples |-> "samples", bits |-> 5],
     [op |-> "distortion", heap |-> OneArray(x), samples |-> "samples",
      drive |-> <<2, 1>>, amount |-> None],
     [op |-> "ring_modulate", heap |-> OneArray(x), samples |-> "samples",
      mod_freq |-> <<11025, 2>>, sample_rate |-> 22050],
     [op |-> "pitch_bend", heap |-> OneArray(x), samples |-> "samples",
      start_pitch |-> <<1, 1>>, end_pitch |-> <<1, 2>>],
     [op |-> "simple_reverb", heap |-> OneArray(x), samples |-> "samples",
      delay |-> <<1, 22050>>, decay |-> <<0, 1>>],
     [op |-> "phaser", heap |-> OneArray(x), samples |-> "samples",
      rate |-> <<0, 1>>, depth |-> <<1, 2>>, sample_rate |-> 22050],
     [op |-> "normalize", heap |-> OneArray(x), samples |-> "samples",
      target_db |-> -20],
     [op |-> "fade_in", heap |-> OneArray(x), samples |-> "samples",
      duration_samples |-> 1],
     [op |-> "fade_out", heap |-> OneArray(x), samples |-> "samples",
      duration_samples |-> 2]}

\* the call c carried out
Transform(c) ==
    CASE c.op = "adsr_envelope" ->
            adsr_envelope(c.heap, c.samples, c.attack, c.decay, c.sustain,
                          c.release, c.sustain_level)
      [] c.op = "percussive_envelope" ->
            percussive_envelope(c.heap, c.samples, c.attack, c.decay)
      [] c.op = "swell_envelope" -> swell_envelope(c.heap, c.samples, c.attack_time)
      [] c.op = "wobble_envelope" -> wobble_envelope(c.heap, c.samples, c.rate, c.depth)
      [] c.op = "bitcrush" -> bitcrush_on_heap(c.heap, c.samples, c.bits)
      [] c.op = "distortion" -> distortion(c.heap, c.samples, c.drive, c.amount)
      [] c.op = "ring_modulate" ->
            ring_modulate(c.heap, c.samples, c.mod_freq, c.sample_rate)
      [] c.op = "pitch_bend" -> pitch_bend(c.heap, c.samples, c.start_pitch, c.end_pitch)
      [] c.op = "simple_reverb" -> simple_reverb(c.heap, c.samples, c.delay, c.decay)
      [] c.op = "phaser" -> phaser(c.heap, c.samples, c.rate, c.depth, c.sample_rate)
      [] c.op = "normalize" -> normalize_on_heap(c.heap, c.samples, c.target_db)
      [] c.op = "fade_in" -> fade_in(c.heap, c.samples, c.duration_samples)
      [] c.op = "fade_out" -> fade_out(c.heap, c.samples, c.duration_samples)

\* the next transform of the pipeline is f: the buffer is rebound to its
\* result, or the exception ends the pipeline
PipeStep(f) ==
    /\ call.op = "pipeline" /\ ret = Pending
    /\ Len(call.steps) < MaxSteps
    /\ \E c \in PipeCalls(call.samples) :
          /\ c.op = f
          /\ LET out == Transform(c)
             IN  IF out.err = "none"
                 THEN /\ call' = [call EXCEPT !.samples = Array(out.val),
                                              !.steps = Append(@, f)]
                      /\ ret' = ret
                 ELSE /\ call' = [call EXCEPT !.steps = Append(@, f)]
                      /\ ret' = Raise(out.err)
    /\ UNCHANGED <<dirs, files>>

\* the pipeline ends with export_wav of its buffer
PipeExport ==
    /\ call.op = "pipeline" /\ ret = Pending
    /\ LET out == export_wav(call.samples, <<"a">>, 22050, dirs, files)
       IN  /\ ret' = out.ret
           /\ dirs' = out.dirs
           /\ files' = out.files
    /\ UNCHANGED call

InitPipe ==
    /\ call \in {[op |-> "pipeline", samples |-> Array(x), n |-> Len(x), steps |-> <<>>] :
                    x \in PipeStarts}
    /\ ret = Pending
    /\ dirs = {<<>>}
    /\ files = <<>>

NextPipe == (\E f \in PipeOps : PipeStep(f)) \/ PipeExport

SpecPipe == InitPipe /\ [][NextPipe]_vars

\* C24: along every pipeline that starts from an oscillator buffer of n > 0
\* samples the buffer keeps its n samples after each transform, no transform
\* raises, and the exported file holds n samples; a 0.3 s buffer at 22050 Hz
\* has 6615 samples.
C24_PipelineKeepsLength ==
    /\ call.op = "pipeline" =>
          /\ call.n > 0
          /\ Len(call.samples) = call.n
          /\ ret.err # "pending" =>
                /\ ret.err = "none"
                /\ Len(files[ret.val].data) = call.n
    /\ NumSamples(<<3, 10>>, 22050) = 6615

\* a pipeline of three samples exported after simple_reverb and pitch_bend
C24_Witness ==
    /\ call.op = "pipeline"
    /\ call.n = 3
    /\ call.steps = <<"simple_reverb", "pitch_bend">>
    /\ ret.err = "none"
    /\ Len(files[ret.val].data) = 3

\* the pipeline of the export test: percussive_envelope, then bitcrush
C24_EnvelopeWitness ==
    /\ call.op = "pipeline"
    /\ call.steps = <<"percussive_envelope", "bitcrush">>
    /\ Len(call.samples) = call.n
    /\ ret.err = "none"

\* ------------------------------------------------ oscillator sample range
\* C25: every sample an oscillator returns lies in [-1, 1], whatever the
\* frequency, duration and rate, and for brown_noise and pink_noise whatever
\* values were drawn.
C25_SamplesWithinUnit ==
    (call.op \in OscOps /\ ret.err = "none") =>
        \A i \in 1..Len(ret.val) :
            RLe(RInt(-1), ret.val[i]) /\ RLe(ret.val[i], ROne)

\* brown noise of three samples, centred and scaled to the peaks 1 and -1
C25_Witness ==
    /\ call.op = "brown_noise"
    /\ ret.err = "none"
    /\ Len(ret.val) = 3
    /\ \E i \in 1..3 : ret.val[i] = ROne
    /\ \E i \in 1..3 : ret.val[i] = RInt(-1)

\* a triangle wave that reaches both ends of the range
C25_TriangleWitness ==
    /\ call.op = "triangle_wave"
    /\ ret.err = "none"
    /\ \E i \in 1..Len(ret.val) : ret.val[i] = ROne
    /\ \E i \in 1..Len(ret.val) : ret.val[i] = RInt(-1)

\* ------------------------------------------------ ADSR phase counts
\* the four phases of an ADSR curve laid end to end: attack_samples values
\* rising from 0 to 1, decay_samples falling from 1 to sustain,
\* sustain_samples at sustain, release_samples falling from sustain to 0
PhasesInOrder(counts, sustain) ==
    LinspaceTo(RZero, ROne, counts.attack_samples)
        \o LinspaceTo(ROne, sustain, counts.decay_samples)
        \o [i \in 1..counts.sustain_samples |-> sustain]
        \o LinspaceTo(sustain, RZero, counts.release_samples)

AdsrLevel == IF call.sustain_level # None THEN call.sustain_level ELSE call.sustain

\* C26: in adsr_envelope with attack, decay and release in [0, 1] and not all
\* zero, the four phase counts the curve is built from are each >= 0 and sum
\* to the buffer length n, the curve being the four phases of those lengths
\* in order; when the sustain count first computed is negative, the counts
\* recomputed from the rescaled fractions have attack + decay + release <= n.
C26_PhaseCountsFillBuffer ==
    (call.op = "adsr_envelope" /\ ret.err # "pending"
        /\ <<call.attack, call.decay, call.release>> # <<RZero, RZero, RZero>>) =>
        LET n == Len(call.heap[call.samples])
            counts == AdsrCounts(n, call.attack, call.decay, call.release)
        IN  /\ counts.attack_samples >= 0
            /\ counts.decay_samples >= 0
            /\ counts.sustain_samples >= 0
            /\ counts.release_samples >= 0
            /\ counts.attack_samples + counts.decay_samples
                   + counts.sustain_samples + counts.release_samples = n
            /\ ret.err = "none"
            /\ ret.heap["envelope"] = PhasesInOrder(counts, AdsrLevel)
            /\ counts.first_sustain < 0 =>
                   counts.attack_samples + counts.decay_samples
                       + counts.release_samples <= n

\* five samples with attack = decay = release = 3/4: the first counts are
\* 3, 3, 3 and -4, the recomputed ones 1, 1, 1 and 2
C26_Witness ==
    /\ call.op = "adsr_envelope"
    /\ ret.err = "none"
    /\ Len(call.heap[call.samples]) = 5
    /\ <<call.attack, call.decay, call.release>> = << <<3, 4>>, <<3, 4>>, <<3, 4>> >>
    /\ AdsrCounts(5, call.attack, call.decay, call.release) =
          [attack_samples |-> 1, decay_samples |-> 1, release_samples |-> 1,
           sustain_samples |-> 2, first_sustain |-> -4]
    /\ Len(ret.heap["envelope"]) = 5

\* ------------------------------------------------ ADSR ramp ends
\* C27 (as stated): whenever the attack phase has at least one sample the
\* first gain is 0 and the last gain of the attack is 1, and whenever the
\* release phase has at least one sample the gain ends at 0, so that the last
\* sample of the output is 0.
C27_RampsReachTheirEnds ==
    (call.op = "adsr_envelope" /\ ret.err = "none") =>
        LET n == Len(call.heap[call.samples])
            counts == AdsrCounts(n, call.attack, call.decay, call.release)
            envelope == ret.heap["envelope"]
        IN  /\ counts.attack_samples >= 1 =>
                   /\ envelope[1] = RZero
                   /\ envelope[counts.attack_samples] = ROne
            /\ counts.release_samples >= 1 =>
                   /\ envelope[n] = RZero
                   /\ ret.val[n] = RZero

\* What the code does: a phase of two or more samples reaches both ends of
\* its ramp; a phase of one sample is np.linspace(start, stop, 1), the start
\* value alone, so a one-sample attack stays at gain 0 and a one-sample
\* release ends the output at sustain times the last input sample.
C27_OneSamplePhaseKeepsStart ==
    (call.op = "adsr_envelope" /\ ret.err = "none") =>
        LET n == Len(call.heap[call.samples])
            counts == AdsrCounts(n, call.attack, call.decay, call.release)
            envelope == ret.heap["envelope"]
        IN  /\ counts.attack_samples >= 1 => envelope[1] = RZero
            /\ counts.attack_samples >= 2 => envelope[counts.attack_samples] = ROne
            /\ counts.release_samples >= 2 => envelope[n] = RZero /\ ret.val[n] = RZero
            /\ counts.release_samples = 1 =>
                   /\ envelope[n] = AdsrLevel
                   /\ ret.val[n] = RMul(call.heap[call.samples][n], AdsrLevel)

\* ------------------------------------------------ envelope gains
EnvelopeOps ==
    {"adsr_envelope", "percussive_envelope", "swell_envelope", "wobble_envelope"}

InUnit(x) == RLe(RZero, x) /\ RLe(x, ROne)

\* the arguments of the envelope call are in the ranges C28 names
EnvArgsInRange ==
    CASE call.op = "adsr_envelope" ->
            /\ InUnit(call.attack) /\ InUnit(call.decay) /\ InUnit(call.release)
            /\ InUnit(AdsrLevel)
      [] call.op = "percussive_envelope" ->
            InUnit(call.attack) /\ RLe(RZero, call.decay)
      [] call.op = "swell_envelope" -> InUnit(call.attack_time)
      [] call.op = "wobble_envelope" -> InUnit(call.depth)

\* the gains the call multiplied the samples by
Gains == IF call.op = "wobble_envelope" THEN ret.heap["modulation"]
         ELSE ret.heap["envelope"]

\* C28: with arguments in range (ADSR fractions and sustain level in [0, 1],
\* percussive attack in [0, 1] and decay >= 0, swell attack_time in [0, 1],
\* wobble depth in [0, 1]) every gain an envelope applies lies in [0, 1] and
\* every output sample is the input sample times its gain, so that
\* |out[i]| <= |in[i]|.
C28_GainsWithinUnit ==
    (call.op \in EnvelopeOps /\ ret.err = "none" /\ EnvArgsInRange) =>
        LET x == call.heap[call.samples]
        IN  /\ Len(Gains) = Len(x)
            /\ \A i \in 1..Len(x) :
                  /\ InUnit(Gains[i])
                  /\ ret.val[i] = RMul(x[i], Gains[i])
                  /\ RLe(RAbs(ret.val[i]), RAbs(x[i]))

\* a wobble at full depth whose LFO is negative at some sample: the gain
\* there is below 1/2 and the output is smaller than the input
C28_Witness ==
    /\ call.op = "wobble_envelope"
    /\ call.depth = ROne
    /\ ret.err = "none"
    /\ \E i \in 1..Len(ret.val) :
          /\ RLt(ret.heap["modulation"][i], <<1, 2>>)
          /\ RLt(RAbs(ret.val[i]), RAbs(call.heap[call.samples][i]))

\* a percussive envelope whose decay part has fallen below gain 1
C28_DecayWitness ==
    /\ call.op = "percussive_envelope"
    /\ ret.err = "none"
    /\ \E i \in 1..Len(ret.val) :
          RLt(RZero, ret.heap["envelope"][i]) /\ RLt(ret.heap["envelope"][i], ROne)

\* ------------------------------------------------ reverb (SpecReverb)
\* simple_reverb alone, on buffers long enough for its three taps to differ
MaxReverbLen == 4

ReverbCalls ==
    {[op |-> "simple_reverb", heap |-> OneArray(x), samples |-> "samples",
      delay |-> Rat(k, 22050), decay |-> dec] :
        x \in {EnvBuffer(n) : n \in 0..MaxReverbLen} \cup CoreBuffers,
        k \in 0..MaxReverbLen,
        dec \in {<<0, 1>>, <<10, 1>>, <<-10, 1>>}}

InitReverb ==
    /\ call \in ReverbCalls
    /\ ret = Pending
    /\ dirs = {<<>>}
    /\ files = <<>>

NextReverb == CallSimpleReverb

SpecReverb == InitReverb /\ [][NextReverb]_vars

\* C29: in simple_reverb with 0 < delay_samples < len(samples), for every
\* decay, output[i] = input[i] for every i < delay_samples, and the returned
\* buffer equals the three echo taps accumulated on a buffer of exactly
\* len(samples) samples: the discarded tail has no influence.
C29_EchoesFollowAndTailIsIdle ==
    (call.op = "simple_reverb" /\ ret.err # "pending") =>
        LET x == call.heap[call.samples]
            delay_samples == DelaySamples(call)
        IN  (0 < delay_samples /\ delay_samples < Len(x)) =>
                /\ ret.err = "none"
                /\ \A i \in 1..delay_samples : ret.val[i] = x[i]
                /\ ret.val = EchoTaps(call.heap, call.samples, delay_samples,
                                      call.decay)[call.samples]

\* four samples, a delay of two: the taps are at 2, 3 and 4 samples, the
\* padded array has ten, and the echoes changed the samples from the third on
C29_Witness ==
    /\ call.op = "simple_reverb"
    /\ ret.err = "none"
    /\ Len(call.heap[call.samples]) = 4
    /\ DelaySamples(call) = 2
    /\ call.decay = <<10, 1>>
    /\ Len(ret.heap["output"]) = 10
    /\ SubSeq(ret.val, 1, 2) = SubSeq(call.heap[call.samples], 1, 2)
    /\ ret.val[3] # call.heap[call.samples][3]
    /\ ret.val[4] # call.heap[call.samples][4]
    /\ \E i \in 5..10 : ret.heap["output"][i] # RZero

\* ------------------------------------------------ pitch bends (SpecBend)
\* pitch_bend and pitch_sweep alone, on buffers of up to MaxEnvLen samples
\* whose neighbouring samples differ
BendPitches ==
    {<<p, q>> : p, q \in {<<1, 1>>, <<1, 2>>, <<2, 1>>, <<3, 10>>}}
        \cup {<< <<-1, 1>>, <<-1, 1>> >>}

BendCalls ==
    {[op |-> "pitch_bend", heap |-> OneArray(x), samples |-> "samples",
      start_pitch |-> pq[1], end_pitch |-> pq[2]] :
        x \in EnvBuffers, pq \in BendPitches}
    \cup
    {[op |-> "pitch_sweep", heap |-> OneArray(x), samples |-> "samples",
      start_freq |-> f, end_freq |-> g, duration |-> <<1, 2>>,
      sample_rate |-> 22050] :
        x \in EnvBuffers, f \in {<<0, 1>>, <<220, 1>>, <<440, 1>>},
        g \in {<<220, 1>>, <<440, 1>>}}

InitBend ==
    /\ call \in BendCalls
    /\ ret = Pending
    /\ dirs = {<<>>}
    /\ files = <<>>

NextBend == CallPitchBend \/ CallPitchSweep

SpecBend == InitBend /\ [][NextBend]_vars

\* the call bends by the same non-zero pitch at both ends
EqualPitches ==
    \/ call.op = "pitch_bend" /\ call.start_pitch = call.end_pitch
           /\ call.start_pitch # RZero
    \/ call.op = "pitch_sweep" /\ RLt(RZero, call.start_freq)
           /\ call.end_freq = call.start_freq

\* C30: pitch_bend with equal non-zero pitches on n >= 1 samples returns n
\* samples, the input advanced by one: output[i] = input[min(i + 1, n - 1)]
\* (positions from 0); the first input sample is dropped and the last one is
\* repeated.  pitch_sweep between equal frequencies does the same.
C30_EqualPitchesAdvanceByOne ==
    (EqualPitches /\ ret.err # "pending" /\ Len(call.heap[call.samples]) >= 1) =>
        LET x == call.heap[call.samples]
            n == Len(x)
        IN  /\ ret.err = "none"
            /\ Len(ret.val) = n
            /\ \A i \in 1..n : ret.val[i] = x[Min(i + 1, n)]

\* five samples that alternate between 1 and -1/2, bent by the pitch 1 at
\* both ends: the result starts with -1/2 and is not the input
C30_Witness ==
    /\ call.op = "pitch_bend"
    /\ call.start_pitch = ROne /\ call.end_pitch = ROne
    /\ call.heap[call.samples] = EnvBuffer(5)
    /\ ret.err = "none"
    /\ ret.val = << <<-1, 2>>, <<1, 1>>, <<-1, 2>>, <<1, 1>>, <<1, 1>> >>
    /\ ret.val # call.heap[call.samples]

\* pitch_sweep between equal frequencies advances the buffer as well
C30_SweepWitness ==
    /\ call.op = "pitch_sweep"
    /\ call.start_freq = call.end_freq
    /\ Len(call.heap[call.samples]) = 4
    /\ ret.err = "none"
    /\ ret.val = << <<-1, 2>>, <<1, 1>>, <<-1, 2>>, <<-1, 2>> >>

====
